---- MODULE Spec2Model ----
(***************************************************************************)
(* Agent pool orchestration of work-cli: the persisted agent registry      *)
(* (AgentStore), the dispatch and retry paths, the dashboard supervisor    *)
(* loop (useAgents), the status synchronizer and the webhook dispatcher.   *)
(***************************************************************************)
EXTENDS Integers, Sequences, FiniteSets, TLC

\* ------------------------------------------------------------- bounds
\* Child-process handles that can exist at once (pids are opaque and a
\* handle is reused only when nothing refers to it any more).
MaxPid == 2
\* Entries of the per-agent trace; a handler that would write one more is
\* not explored.
MaxLog == 10
\* Store operations applied in the single-store specification.
MaxOps == 3
\* Length of the pending queue.
MaxQueue == 2
\* moveCard calls in flight at once.
MaxMoves == 1
\* Dispatches (from the dashboard or a webhook) in one exploration.
MaxDispatch == 1
\* Saturation point of the per-assignment retry counter (a history value).
RetryCap == 4

\* ------------------------------------------------- program constants
AGENT_NAMES == <<"ember", "flow", "tempest", "terra">>
MAX_RETRIES == 3

Names == {AGENT_NAMES[i] : i \in 1..Len(AGENT_NAMES)}

\* An optional value: <<>> is JavaScript's undefined, <<v>> the value v.
None == <<>>
Some(v) == <<v>>

\* Work items as the trackers deliver them (id, title, source).
Items ==
  { [id |-> "LIN-42", title |-> "Fix auth flow", source |-> "Linear"],
    [id |-> "T-7", title |-> "Add dark mode", source |-> "Trello"] }

\* The Agent interface: name and status always present, the rest optional.
PlainFields == {"name", "status"}
OptFields == {"workItemId", "workItemTitle", "workItemSource", "branch",
              "worktreePath", "pid", "startedAt", "error", "retryCount"}
Fields == PlainFields \cup OptFields

Statuses == {"idle", "provisioning", "working", "done", "error"}

StaleMessage == "Process died unexpectedly"
ProvisionMessage == "Command failed: git fetch origin main"
SpawnMessage == "spawn claude ENOENT"
RetryInfoMessage == "missing work item info for retry"

\* `Process exited with code ${code}` for the exit codes of the model:
\* 0, 1 and the negative errno a failed spawn closes with.
ExitCodes == {0, 1}
ExitMessage(code) ==
  IF code = 0 THEN "Process exited with code 0"
  ELSE IF code = 1 THEN "Process exited with code 1"
  ELSE "Process exited with code -2"

defaultAgent(name) ==
  [name |-> name, status |-> "idle", workItemId |-> None,
   workItemTitle |-> None, workItemSource |-> None, branch |-> None,
   worktreePath |-> None, pid |-> None, startedAt |-> None,
   error |-> None, retryCount |-> None]

defaultData == [n \in Names |-> defaultAgent(n)]

\* { ...agent, ...partial }: the keys of partial win.
Spread(agent, partial) ==
  [f \in Fields |-> IF f \in DOMAIN partial THEN partial[f] ELSE agent[f]]

\* JSON.stringify of one record: keys whose value is undefined are dropped.
StringifyAgent(agent) ==
  [f \in {g \in Fields : g \in PlainFields \/ agent[g] # None} |->
     IF f \in PlainFields THEN agent[f] ELSE agent[f][1]]

\* JSON.stringify(this.data): the whole document.
Stringify(data) == [agents |-> [n \in Names |-> StringifyAgent(data[n])]]

\* The spread with its operands exchanged: the defaults win.
MergeDefaultsLast(def, raw) ==
  [f \in Fields |->
     IF f \in PlainFields THEN def[f]
     ELSE IF def[f] # None THEN def[f]
     ELSE IF f \in DOMAIN raw THEN Some(raw[f]) ELSE None]

\* { ...defaults.agents[name], ...parsed.agents[name] } on a parsed record.
MergeParsed(def, raw) ==
  [f \in Fields |->
     IF f \in DOMAIN raw
       THEN (IF f \in PlainFields THEN raw[f] ELSE Some(raw[f]))
       ELSE def[f]]

\* A load that gives up on a document lacking one of the configured names.
loadAllOrNothing(f) ==
  IF f = None \/ DOMAIN f[1].agents # Names THEN defaultData
  ELSE [n \in Names |-> MergeParsed(defaultAgent(n), f[1].agents[n])]

\* AgentStore.load: a missing or unparsable file (None) gives the defaults;
\* otherwise each configured name present in the document is merged onto
\* its default.
load(f) ==
  IF f = None THEN defaultData
  ELSE [n \in Names |->
          IF n \in DOMAIN f[1].agents
            THEN MergeParsed(defaultAgent(n), f[1].agents[n])
            ELSE defaultAgent(n)]

\* AgentStore.save: the file becomes the document of the in-memory data.
save(data) == Some(Stringify(data))

\* `agent.pid &&`: a pid that is defined and not 0.
TruthyNum(opt) == opt # None /\ opt[1] # 0

\* `!agent.workItemId`: a string that is defined and not empty.
TruthyStr(opt) == opt # None /\ opt[1] # ""

\* process.kill(pid, 0) succeeds: the pid names a running child of this
\* process ("running") or a live process started by an earlier one ("orphan").
Alive(ps, pid) == pid \in DOMAIN ps /\ ps[pid].st \in {"running", "orphan"}

IsStale(agent, ps) ==
  /\ TruthyNum(agent.pid)
  /\ agent.status \in {"working", "provisioning"}
  /\ ~Alive(ps, agent.pid[1])

\* A stale fix that also forgets the work item.
StaleFixForgetsItem(agent) ==
  [agent EXCEPT !.status = "error", !.error = Some(StaleMessage), !.pid = None,
                !.workItemId = None]

StaleFix(agent) ==
  [agent EXCEPT !.status = "error", !.error = Some(StaleMessage), !.pid = None]

\* AgentStore.cleanStaleProcesses on the in-memory data.
cleanStaleProcesses(data, ps) ==
  [n \in Names |-> IF IsStale(data[n], ps) THEN StaleFix(data[n]) ELSE data[n]]

\* The `changed` flag of cleanStaleProcesses.
StaleChanged(data, ps) == \E n \in Names : IsStale(data[n], ps)

\* AgentStore.getNextFreeAgent: AGENT_NAMES.find(status === "idle").
RECURSIVE FindIdle(_, _)
FindIdle(data, i) ==
  IF i > Len(AGENT_NAMES) THEN None
  ELSE IF data[AGENT_NAMES[i]].status = "idle" THEN Some(AGENT_NAMES[i])
  ELSE FindIdle(data, i + 1)

\* The last idle agent of the pool instead of the first.
RECURSIVE FindIdleDown(_, _)
FindIdleDown(data, i) ==
  IF i < 1 THEN None
  ELSE IF data[AGENT_NAMES[i]].status = "idle" THEN Some(AGENT_NAMES[i])
  ELSE FindIdleDown(data, i - 1)

getLastFreeAgent(data) == FindIdleDown(data, Len(AGENT_NAMES))

getNextFreeAgent(data) == FindIdle(data, 1)

\* AgentStore.getAll: the records in the fixed pool order.
getAll(data) == [i \in 1..Len(AGENT_NAMES) |-> data[AGENT_NAMES[i]]]

\* The record operations of AgentStore, on one record.
BusyRecord(name, id, title, source, branch, wt, pid) ==
  [name |-> name, status |-> "working", workItemId |-> id,
   workItemTitle |-> title, workItemSource |-> source, branch |-> branch,
   worktreePath |-> wt, pid |-> pid, startedAt |-> Some("now"),
   error |-> None, retryCount |-> None]

\* A done record that keeps the pid of the finished process.
DoneRecordKeepsPid(agent) == [agent EXCEPT !.status = "done"]

DoneRecord(agent) == [agent EXCEPT !.status = "done", !.pid = None]

\* An error record that keeps the pid of the failed process.
ErrorRecordKeepsPid(agent, msg) ==
  [agent EXCEPT !.status = "error", !.error = Some(msg)]

ErrorRecord(agent, msg) ==
  [agent EXCEPT !.status = "error", !.error = Some(msg), !.pid = None]

RetryCountOf(agent) == IF agent.retryCount = None THEN 0 ELSE agent.retryCount[1]

RetryRecord(agent) == [agent EXCEPT !.retryCount = Some(RetryCountOf(agent) + 1)]

\* ---------------------------------------------------------------- state
VARIABLES
  file,        \* ~/.localpipeline/agents.json: None (missing or unparsable) or Some(document)
  queue,       \* ~/.localpipeline/queue.json: None (missing or unparsable) or Some(items)
  stores,      \* the data of each live AgentStore instance: 0 is the dashboard's
               \* storeRef, p the store captured by the callbacks of child p,
               \* ReqStore the store of the webhook request being handled
  procs,       \* the processes the recorded pids can name, by handle
  trace,       \* per agent: the activity events and external effects, in order
  completing,  \* completingRef
  retrying,    \* retryingRef
  pendDone,    \* per agent: the markWorkItemDone call awaiting its provider
  pendFin,     \* per agent: the handleMaxRetriesExceeded call awaiting a provider
  retries,     \* per agent: supervisor retries since the assignment began (history)
  edges,       \* the status changes the last step wrote to the registry file (history)
  providers,   \* the configured tracker collaborators, in registration order
  moves,       \* the moveCard calls awaiting a provider
  cardCalls,   \* the moveCard calls made on providers and how they ended, in order
  resp,        \* the last response of the webhook server
  ndisp,       \* dispatches made so far (bounds the exploration)
  last,        \* the last store operation of the single-store specification (history)
  nops,        \* operations applied in the single-store specification
  req,         \* the last request on the github webhook route (history)
  nav          \* the dashboard's navigation hook: its state and what its closures saw

vars == <<file, queue, stores, procs, trace, completing, retrying, pendDone,
          pendFin, retries, edges, providers, moves, cardCalls, resp, ndisp,
          last, nops, req, nav>>

\* What the registry handlers leave alone.
others == <<queue, providers, moves, cardCalls, resp, ndisp, last, nops, req>>

UiStore == 0
ReqStore == MaxPid + 1
StoreIds == 0..(MaxPid + 1)
Pids == 1..MaxPid

NoProc == [st |-> "none", agent |-> "ember", item |-> "", store |-> 0, code |-> 0]

\* A live process a recorded pid names that is no child of this process.
Orphan == [NoProc EXCEPT !.st = "orphan"]

\* The mutable world a handler works on; ok turns FALSE when the handler
\* needs a child handle or a trace entry and none is left.
World ==
  [file |-> file, stores |-> stores, procs |-> procs, trace |-> trace,
   completing |-> completing, retrying |-> retrying, pendDone |-> pendDone,
   pendFin |-> pendFin, retries |-> retries, edges |-> {}, micro |-> <<>>,
   ok |-> TRUE]

SetWorld(w) ==
  /\ w.ok
  /\ file' = w.file
  /\ stores' = w.stores
  /\ procs' = w.procs
  /\ trace' = w.trace
  /\ completing' = w.completing
  /\ retrying' = w.retrying
  /\ pendDone' = w.pendDone
  /\ pendFin' = w.pendFin
  /\ retries' = w.retries
  /\ edges' = w.edges
  /\ nav' = nav

\* ------------------------------------------------------- AgentStore
\* The status changes between two contents of the registry file.
StatusChanges(f, g) ==
  {<<n, load(f)[n].status, load(g)[n].status>> :
     n \in {m \in Names : load(f)[m].status # load(g)[m].status}}

\* writeFileSync(this.filePath, JSON.stringify(this.data))
WriteFile(w, d) ==
  [w EXCEPT !.file = save(d), !.edges = @ \cup StatusChanges(w.file, save(d))]

\* this.data.agents[name] = rec; this.save()
SetAgent(w, s, name, rec) ==
  LET d == [w.stores[s] EXCEPT ![name] = rec]
  IN WriteFile([w EXCEPT !.stores[s] = d], d)

updateAgent(w, s, name, partial) ==
  SetAgent(w, s, name, Spread(w.stores[s][name], partial))

\* A markBusy that leaves alone an agent one of whose children still runs.
markBusyUnlessLive(w, s, name, id, title, source, branch, wt, pid) ==
  IF \E p \in DOMAIN w.procs : w.procs[p].st = "running" /\ w.procs[p].agent = name
    THEN w
    ELSE SetAgent(w, s, name, BusyRecord(name, id, title, source, branch, wt, pid))

markBusy(w, s, name, id, title, source, branch, wt, pid) ==
  SetAgent(w, s, name, BusyRecord(name, id, title, source, branch, wt, pid))

markDone(w, s, name) == SetAgent(w, s, name, DoneRecord(w.stores[s][name]))

markError(w, s, name, msg) ==
  SetAgent(w, s, name, ErrorRecord(w.stores[s][name], msg))

incrementRetry(w, s, name) ==
  SetAgent(w, s, name, RetryRecord(w.stores[s][name]))

\* A release that keeps the retry count of the record.
releaseKeepsRetry(w, s, name) ==
  SetAgent(w, s, name,
           [defaultAgent(name) EXCEPT !.retryCount = w.stores[s][name].retryCount])

release(w, s, name) == SetAgent(w, s, name, defaultAgent(name))

\* reload(), and the constructor: load, then cleanStaleProcesses, which
\* saves only when it changed something.
reload(w, s) ==
  LET d == load(w.file)
      c == cleanStaleProcesses(d, w.procs)
      w1 == [w EXCEPT !.stores[s] = c]
  IN IF StaleChanged(d, w.procs) THEN WriteFile(w1, c) ELSE w1

\* ----------------------------------------------------- activity log
\* One line of the activity log (k = "event"), or an external effect of the
\* supervisor for the agent (k = "call": a provider call, how it ended, the
\* append to the agent's failure log).
Entry(k, e, x, m) == [k |-> k, e |-> e, x |-> x, m |-> m]

\* The trace of an agent starts again at each retry event.
Log(w, agent, entry) ==
  IF entry.k = "event" /\ entry.e = "retry"
    THEN [w EXCEPT !.trace[agent] = <<entry>>]
  ELSE IF Len(w.trace[agent]) >= MaxLog THEN [w EXCEPT !.ok = FALSE]
  ELSE [w EXCEPT !.trace[agent] = Append(@, entry)]

\* appendEvent({agent, event, workItemId, message})
appendEvent(w, agent, event, x, m) == Log(w, agent, Entry("event", event, x, m))

Effect(w, agent, e, x) == Log(w, agent, Entry("call", e, x, ""))

AutoReleaseMessage == "Auto-released after completion"
MaxReleaseMessage == "Released after max retries exceeded"

\* ------------------------------------------------- dispatch and retry
\* branchName(agent, id, title) and worktreePath(repoRoot, agent): one branch
\* per agent and item, one workspace per agent.
branchName(name, item) == <<"agent", name, item.id>>
worktreePath(name) == <<"agent-", name>>

PidReferenced(w, p) ==
  \/ \E s \in StoreIds, n \in Names : w.stores[s][n].pid = Some(p)
  \/ /\ w.file # None
     /\ \E n \in DOMAIN w.file[1].agents :
          /\ "pid" \in DOMAIN w.file[1].agents[n]
          /\ w.file[1].agents[n]["pid"] = p

\* The handles a new child can take: unused, and named by no record.
FreeHandles(w) == {p \in Pids : w.procs[p].st = "none" /\ ~PidReferenced(w, p)}

\* What stands between the provisioned workspace and the running child:
\* a provisioning step or spawn throws ("throw"), the child starts
\* ("spawned"), or spawn reports its failure later through the error
\* event, the child having no pid ("enoent").
Outcomes == {"throw", "spawned", "enoent"}

\* A launch that marks the agent busy without the working event.
LaunchUnlogged(w, s, name, item, branch, wt, oc) ==
  IF FreeHandles(w) = {} THEN [w EXCEPT !.ok = FALSE]
  ELSE
    LET p == CHOOSE q \in FreeHandles(w) : \A r \in FreeHandles(w) : q <= r
        w1 == markBusy(w, s, name, Some(item.id), Some(item.title),
                       Some(item.source), Some(branch), Some(wt),
                       IF oc = "spawned" THEN Some(p) ELSE None)
    IN [w1 EXCEPT !.procs[p] =
          [st |-> IF oc = "spawned" THEN "running" ELSE "failed",
           agent |-> name, item |-> item.id, store |-> s, code |-> 0]]

\* spawn + markBusy + the working event + child.on("close"/"error"), as
\* dispatchToAgent and retryAgent both do it.
Launch(w, s, name, item, branch, wt, oc) ==
  IF FreeHandles(w) = {} THEN [w EXCEPT !.ok = FALSE]
  ELSE
    LET p == CHOOSE q \in FreeHandles(w) : \A r \in FreeHandles(w) : q <= r
        w1 == markBusy(w, s, name, Some(item.id), Some(item.title),
                       Some(item.source), Some(branch), Some(wt),
                       IF oc = "spawned" THEN Some(p) ELSE None)
        w2 == appendEvent(w1, name, "working", Some(item.id), "")
    IN [w2 EXCEPT !.procs[p] =
          [st |-> IF oc = "spawned" THEN "running" ELSE "failed",
           agent |-> name, item |-> item.id, store |-> s, code |-> 0]]

\* The partial record dispatchToAgent writes before it provisions.
ProvisionPartial(name, item) ==
  [status |-> "provisioning", workItemId |-> Some(item.id),
   workItemTitle |-> Some(item.title), workItemSource |-> Some(item.source),
   branch |-> Some(branchName(name, item)),
   worktreePath |-> Some(worktreePath(name))]

\* A dispatch that records nothing before it provisions.
dispatchUnrecorded(w, s, name, item, oc) ==
  LET w2 == appendEvent(w, name, "dispatched", Some(item.id), "")
      w3 == [w2 EXCEPT !.retries[name] = 0]
  IN IF oc = "throw"
       THEN appendEvent(markError(w3, s, name, ProvisionMessage),
                        name, "error", Some(item.id), ProvisionMessage)
       ELSE Launch(w3, s, name, item, branchName(name, item), worktreePath(name), oc)

dispatchToAgent(w, s, name, item, oc) ==
  LET b == branchName(name, item)
      wt == worktreePath(name)
      w1 == updateAgent(w, s, name, ProvisionPartial(name, item))
      w2 == appendEvent(w1, name, "dispatched", Some(item.id), "")
      w3 == [w2 EXCEPT !.retries[name] = 0]
  IN IF oc = "throw"
       THEN appendEvent(markError(w3, s, name, ProvisionMessage),
                        name, "error", Some(item.id), ProvisionMessage)
       ELSE Launch(w3, s, name, item, b, wt, oc)

\* A retry that derives the branch anew, from the agent alone.
retryAgentNewBranch(w, s, name, oc) ==
  LET agent == w.stores[s][name]
  IN IF ~TruthyStr(agent.workItemId) \/ ~TruthyStr(agent.workItemTitle)
        \/ agent.branch = None
       THEN w
     ELSE IF oc = "throw" THEN w
     ELSE Launch(w, s, name,
                 [id |-> agent.workItemId[1], title |-> agent.workItemTitle[1],
                  source |-> IF agent.workItemSource = None THEN ""
                             ELSE agent.workItemSource[1]],
                 worktreePath(name), worktreePath(name), oc)

\* retryAgent rejects without touching the store when the record lacks the
\* item or when a step before the spawn throws.
retryAgent(w, s, name, oc) ==
  LET agent == w.stores[s][name]
  IN IF ~TruthyStr(agent.workItemId) \/ ~TruthyStr(agent.workItemTitle)
        \/ agent.branch = None
       THEN w
     ELSE IF oc = "throw" THEN w
     ELSE Launch(w, s, name,
                 [id |-> agent.workItemId[1], title |-> agent.workItemTitle[1],
                  source |-> IF agent.workItemSource = None THEN ""
                             ELSE agent.workItemSource[1]],
                 agent.branch[1], worktreePath(name), oc)

\* A close handler that also looks at the agent's recorded status.
onCloseIfWorking(w, p) ==
  LET c == w.procs[p]
  IN IF c.code = 0 /\ w.stores[c.store][c.agent].status = "working"
       THEN appendEvent(markDone(w, c.store, c.agent), c.agent, "done",
                        Some(c.item), "")
       ELSE appendEvent(markError(w, c.store, c.agent, ExitMessage(c.code)),
                        c.agent, "error", Some(c.item), ExitMessage(c.code))

\* child.on("close"): exit code 0 marks done, any other code error.
onClose(w, p) ==
  LET c == w.procs[p]
  IN IF c.code = 0
       THEN appendEvent(markDone(w, c.store, c.agent), c.agent, "done",
                        Some(c.item), "")
       ELSE appendEvent(markError(w, c.store, c.agent, ExitMessage(c.code)),
                        c.agent, "error", Some(c.item), ExitMessage(c.code))

\* child.on("error")
onError(w, p) ==
  LET c == w.procs[p]
  IN appendEvent(markError(w, c.store, c.agent, SpawnMessage),
                 c.agent, "error", Some(c.item), SpawnMessage)

\* The store of a webhook request lives as long as the child whose
\* callbacks captured it.
DropChild(w, p) ==
  [w EXCEPT !.procs[p] = NoProc,
            !.stores[p] = IF w.procs[p].store = p THEN defaultData ELSE @]

\* ------------------------------------------------- status synchronizer
Caps == {"moveCard", "addComment", "markItemDone"}

\* providers.find((p) => p.name === source): its index, 0 when there is none.
RECURSIVE FindFrom(_, _, _)
FindFrom(provs, source, i) ==
  IF i > Len(provs) THEN 0
  ELSE IF provs[i].name = source THEN i
  ELSE FindFrom(provs, source, i + 1)

\* A lookup that ignores the name and takes the first registered provider.
FindFirstProvider(provs, source) == IF Len(provs) = 0 THEN 0 ELSE 1

FindProvider(provs, source) == FindFrom(provs, source, 1)

\* A loop that does not test for the capability.
NextAny(provs, cap, i) == IF i > Len(provs) THEN 0 ELSE i

\* `for (const provider of providers)` from index i on, skipping those
\* without the capability: the next provider to call, 0 when none is left.
RECURSIVE NextWith(_, _, _)
NextWith(provs, cap, i) ==
  IF i > Len(provs) THEN 0
  ELSE IF cap \in provs[i].caps THEN i
  ELSE NextWith(provs, cap, i + 1)

Min(a, b) == IF a <= b THEN a ELSE b

\* The .finally of the done branch: the released event, release, and the
\* agent leaves completingRef.
FinishDone(w, snap) ==
  LET w1 == appendEvent(w, snap.name, "released", snap.workItemId, AutoReleaseMessage)
      w2 == release(w1, UiStore, snap.name)
  IN [w2 EXCEPT !.completing = @ \ {snap.name}, !.retries[snap.name] = 0]

\* The .finally of the max-retries branch.
FinishMax(w, snap) ==
  LET w1 == appendEvent(w, snap.name, "released", snap.workItemId, MaxReleaseMessage)
      w2 == release(w1, UiStore, snap.name)
  IN [w2 EXCEPT !.retrying = @ \ {snap.name}, !.retries[snap.name] = 0]

\* A lookup by name among the providers that can mark items done.
markWorkItemDoneCapable(w, snap) ==
  LET match == {j \in 1..Len(providers) :
                  /\ TruthyStr(snap.workItemSource)
                  /\ providers[j].name = snap.workItemSource[1]
                  /\ "markItemDone" \in providers[j].caps}
      i == IF match = {} THEN 0 ELSE CHOOSE j \in match : \A l \in match : j <= l
  IN IF ~TruthyStr(snap.workItemId) \/ i = 0
       THEN [w EXCEPT !.micro = Append(@, [k |-> "completed", snap |-> snap])]
       ELSE [Effect(w, snap.name, "markItemDone", Some(providers[i].name))
               EXCEPT !.pendDone[snap.name] = Some([snap |-> snap, idx |-> i])]

\* markWorkItemDone up to its await: it returns at once without an item, a
\* source, a provider of that name or the capability; otherwise it calls
\* markItemDone on the provider named like the item's source.
markWorkItemDone(w, snap) ==
  LET i == IF TruthyStr(snap.workItemSource)
             THEN FindProvider(providers, snap.workItemSource[1]) ELSE 0
  IN IF \/ ~TruthyStr(snap.workItemId)
        \/ i = 0
        \/ "markItemDone" \notin providers[i].caps
       THEN [w EXCEPT !.micro = Append(@, [k |-> "completed", snap |-> snap])]
       ELSE [Effect(w, snap.name, "markItemDone", Some(providers[i].name))
               EXCEPT !.pendDone[snap.name] = Some([snap |-> snap, idx |-> i])]

\* A variant that comments without writing the failure log.
handleMaxRetriesNoLog(w, snap) ==
  LET i == NextWith(providers, "addComment", 1)
  IN IF TruthyStr(snap.workItemId) /\ i # 0
       THEN [Effect(w, snap.name, "addComment", Some(providers[i].name))
               EXCEPT !.pendFin[snap.name] = Some([snap |-> snap, idx |-> i])]
       ELSE [w EXCEPT !.micro = Append(@, [k |-> "finalized", snap |-> snap])]

\* handleMaxRetriesExceeded up to its first await: the failure log, then
\* the first provider that can comment.
handleMaxRetriesExceeded(w, snap) ==
  LET w1 == Effect(w, snap.name, "failures.log", None)
      i == NextWith(providers, "addComment", 1)
  IN IF TruthyStr(snap.workItemId) /\ i # 0
       THEN [Effect(w1, snap.name, "addComment", Some(providers[i].name))
               EXCEPT !.pendFin[snap.name] = Some([snap |-> snap, idx |-> i])]
       ELSE [w1 EXCEPT !.micro = Append(@, [k |-> "finalized", snap |-> snap])]

\* -------------------------------------------------- retry supervisor
\* A done branch without the in-flight guard.
DoneBranchUnguarded(w, snap) ==
  IF snap.status = "done"
    THEN markWorkItemDone([w EXCEPT !.completing = @ \cup {snap.name}], snap)
    ELSE w

\* The done branch of one iteration of `for (const agent of current)`.
DoneBranch(w, snap) ==
  IF snap.status = "done" /\ snap.name \notin w.completing
    THEN markWorkItemDone([w EXCEPT !.completing = @ \cup {snap.name}], snap)
    ELSE w

\* The error branch: a retry while retryCount < MAX_RETRIES, the max-retries
\* path otherwise.
ErrorBranch(w, snap, oc) ==
  LET name == snap.name
  IN IF snap.status = "error" /\ name \notin w.retrying
       THEN IF RetryCountOf(snap) < MAX_RETRIES
              THEN LET w2 == [w EXCEPT !.retrying = @ \cup {name},
                                       !.retries[name] = Min(@ + 1, RetryCap)]
                       w3 == incrementRetry(w2, UiStore, name)
                       w4 == appendEvent(w3, name, "retry", snap.workItemId, "")
                       w5 == retryAgent(w4, UiStore, name, oc)
                   IN [w5 EXCEPT !.micro = Append(@, [k |-> "retried", snap |-> snap])]
              ELSE LET w2 == [w EXCEPT !.retrying = @ \cup {name}]
                       w3 == appendEvent(w2, name, "max-retries", snap.workItemId, "")
                   IN handleMaxRetriesExceeded(w3, snap)
       ELSE w

TickAgent(w, snap, oc) == ErrorBranch(DoneBranch(w, snap), snap, oc)

\* A loop that a failed retry ends: the agents behind it are not handled.
RECURSIVE TickLoopHalting(_, _, _, _)
TickLoopHalting(w, cur, oc, i) ==
  IF i > Len(AGENT_NAMES) THEN w
  ELSE LET n == AGENT_NAMES[i]
           o == IF n \in DOMAIN oc THEN oc[n] ELSE "throw"
           w1 == TickAgent(w, cur[n], o)
       IN IF n \in DOMAIN oc /\ o = "throw" THEN w1
          ELSE TickLoopHalting(w1, cur, oc, i + 1)

RECURSIVE TickLoop(_, _, _, _)
TickLoop(w, cur, oc, i) ==
  IF i > Len(AGENT_NAMES) THEN w
  ELSE LET n == AGENT_NAMES[i]
       IN TickLoop(TickAgent(w, cur[n], IF n \in DOMAIN oc THEN oc[n] ELSE "throw"),
                   cur, oc, i + 1)

\* The promise reactions that run when the interval callback has returned.
RunMicro(w, m) ==
  IF m.k = "completed" THEN FinishDone(w, m.snap)
  ELSE IF m.k = "finalized" THEN FinishMax(w, m.snap)
  ELSE [w EXCEPT !.retrying = @ \ {m.snap.name}]

RECURSIVE RunMicros(_, _)
RunMicros(w, i) ==
  IF i > Len(w.micro) THEN [w EXCEPT !.micro = <<>>]
  ELSE RunMicros(RunMicro(w, w.micro[i]), i + 1)

\* The agents the pass will retry, each with the outcome of its attempt.
Retriable(cur) ==
  {n \in Names : /\ cur[n].status = "error"
                 /\ n \notin retrying
                 /\ RetryCountOf(cur[n]) < MAX_RETRIES}

\* The setInterval callback of useAgents.
Tick ==
  LET w0 == reload(World, UiStore)
      cur == w0.stores[UiStore]
  IN \E oc \in [Retriable(cur) -> Outcomes] :
       /\ SetWorld(RunMicros(TickLoop(w0, cur, oc, 1), 1))
       /\ UNCHANGED others

\* A settle whose failure escapes: nothing runs after mark-done-failed.
MarkDoneSettleOrThrow(a, ok) ==
  /\ pendDone[a] # None
  /\ LET snap == pendDone[a][1].snap
         w1 == appendEvent(World, a,
                 IF ok THEN "marked-done" ELSE "mark-done-failed",
                 snap.workItemId, "")
         w2 == IF ok THEN FinishDone(w1, snap) ELSE w1
     IN SetWorld([w2 EXCEPT !.pendDone[a] = None])
  /\ UNCHANGED others

\* provider.markItemDone settles: marked-done or mark-done-failed, then
\* the .finally.
MarkDoneSettle(a, ok) ==
  /\ pendDone[a] # None
  /\ LET snap == pendDone[a][1].snap
         w1 == appendEvent(World, a,
                 IF ok THEN "marked-done" ELSE "mark-done-failed",
                 snap.workItemId, "")
         w2 == FinishDone(w1, snap)
     IN SetWorld([w2 EXCEPT !.pendDone[a] = None])
  /\ UNCHANGED others

\* provider.addComment settles: success breaks the loop, failure moves on
\* to the next provider that can comment; after the loop, the .finally.
CommentSettle(a, ok) ==
  /\ pendFin[a] # None
  /\ LET snap == pendFin[a][1].snap
         idx == pendFin[a][1].idx
         w1 == Effect(World, a, IF ok THEN "addComment.ok" ELSE "addComment.failed",
                      Some(providers[idx].name))
         i == IF ok THEN 0 ELSE NextWith(providers, "addComment", idx + 1)
     IN IF i # 0
          THEN SetWorld([Effect(w1, a, "addComment", Some(providers[i].name))
                           EXCEPT !.pendFin[a] = Some([snap |-> snap, idx |-> i])])
          ELSE SetWorld([FinishMax(w1, snap) EXCEPT !.pendFin[a] = None])
  /\ UNCHANGED others

\* dispatchItem of the dashboard: the first idle agent, dispatchToAgent on
\* the dashboard's store, then reload.
DispatchItem(item) ==
  /\ ndisp < MaxDispatch
  /\ getNextFreeAgent(stores[UiStore]) # None
  /\ \E oc \in Outcomes :
       SetWorld(reload(dispatchToAgent(World, UiStore,
                         getNextFreeAgent(stores[UiStore])[1], item, oc), UiStore))
  /\ ndisp' = ndisp + 1
  /\ UNCHANGED <<queue, providers, moves, cardCalls, resp, last, nops, req>>

\* A release that also takes the oldest item off the pending queue.
ReleaseAgentDrain(name) ==
  /\ SetWorld([release(World, UiStore, name) EXCEPT !.retries[name] = 0])
  /\ queue' = IF queue = None \/ queue[1] = <<>> THEN queue ELSE Some(Tail(queue[1]))
  /\ UNCHANGED <<providers, moves, cardCalls, resp, ndisp, last, nops, req>>

\* releaseAgent of the dashboard hook.
ReleaseAgent(name) ==
  /\ SetWorld([release(World, UiStore, name) EXCEPT !.retries[name] = 0])
  /\ UNCHANGED others

\* ------------------------------------------------------ child processes
\* The child ends; its pid is dead from now on, its close event still due.
Exit(p, code) ==
  /\ procs[p].st = "running"
  /\ procs' = [procs EXCEPT ![p].st = "exited", ![p].code = code]
  /\ edges' = {} /\ nav' = nav
  /\ UNCHANGED <<file, stores, trace, completing, retrying, pendDone,
                 pendFin, retries>>
  /\ UNCHANGED others

\* The close event is delivered.
Close(p) ==
  /\ procs[p].st = "exited"
  /\ SetWorld(DropChild(onClose(World, p), p))
  /\ UNCHANGED others

\* The error event of a failed spawn is delivered; its close event, with
\* the negative errno as code, follows.
SpawnError(p) ==
  /\ procs[p].st = "failed"
  /\ SetWorld([onError(World, p) EXCEPT !.procs[p].st = "exited",
                                        !.procs[p].code = -2])
  /\ UNCHANGED others

\* A process left by an earlier run ends.
Die(p) ==
  /\ procs[p].st = "orphan"
  /\ procs' = [procs EXCEPT ![p] = NoProc]
  /\ edges' = {} /\ nav' = nav
  /\ UNCHANGED <<file, stores, trace, completing, retrying, pendDone,
                 pendFin, retries>>
  /\ UNCHANGED others

\* ------------------------------------------------ webhook dispatcher
\* A loader that forgets what the file holds.
loadNoQueue(q) == <<>>

\* loadQueue: the items of the file, none when it is missing or unparsable.
loadQueue(q) == IF q = None THEN <<>> ELSE q[1]

\* A writer that keeps the newest item only.
saveQueueLast(items) ==
  IF items = <<>> THEN Some(<<>>) ELSE Some(<< items[Len(items)] >>)

saveQueue(items) == Some(items)

getQueue == loadQueue(queue)

NoResp == [kind |-> "none", agent |-> None, item |-> ""]

\* The store of the request becomes the store of the child it launched.
Adopt(w) ==
  LET mine == {p \in Pids : w.procs[p].st # "none" /\ w.procs[p].store = ReqStore}
  IN IF mine = {} THEN [w EXCEPT !.stores[ReqStore] = defaultData]
     ELSE LET p == CHOOSE q \in mine : TRUE
          IN [w EXCEPT !.procs[p].store = p,
                       !.stores[p] = w.stores[ReqStore],
                       !.stores[ReqStore] = defaultData]

\* What one moveCard invocation did: the providers it called, in order,
\* and how each call ended.
NoCard == [id |-> "", status |-> "", calls |-> <<>>]

\* moveCard up to its first await: the first provider that can move cards
\* is called; without one the invocation is over and the reply goes out.
StartMove(id, status, reply) ==
  LET i == NextWith(providers, "moveCard", 1)
  IN IF i = 0
       THEN /\ resp' = reply
            /\ cardCalls' = [id |-> id, status |-> status, calls |-> <<>>]
            /\ UNCHANGED moves
       ELSE /\ Len(moves) < MaxMoves
            /\ moves' = Append(moves, [id |-> id, status |-> status, idx |-> i,
                                       reply |-> reply, calls |-> <<>>])
            /\ UNCHANGED <<resp, cardCalls>>

\* A dispatcher that keeps one store for all requests and never rereads
\* the registry file.
webhookDispatchOneStore(item) ==
  LET w0 == World
      free == getNextFreeAgent(w0.stores[ReqStore])
  IN IF free = None
       THEN /\ Len(loadQueue(queue)) < MaxQueue
            /\ queue' = saveQueue(Append(loadQueue(queue), item))
            /\ resp' = [kind |-> "queued", agent |-> None, item |-> item.id]
            /\ SetWorld(Adopt(w0))
            /\ UNCHANGED <<providers, moves, cardCalls, ndisp, last, nops>>
       ELSE /\ ndisp < MaxDispatch
            /\ ndisp' = ndisp + 1
            /\ \E oc \in Outcomes :
                 SetWorld(Adopt(dispatchToAgent(w0, ReqStore, free[1], item, oc)))
            /\ StartMove(item.id, "in_progress",
                         [kind |-> "dispatched", agent |-> free, item |-> item.id])
            /\ UNCHANGED <<queue, providers, last, nops>>

\* webhookDispatch and the reply of the server to it.
webhookDispatch(item) ==
  LET w0 == reload(World, ReqStore)
      free == getNextFreeAgent(w0.stores[ReqStore])
  IN IF free = None
       THEN /\ Len(loadQueue(queue)) < MaxQueue
            /\ queue' = saveQueue(Append(loadQueue(queue), item))
            /\ resp' = [kind |-> "queued", agent |-> None, item |-> item.id]
            /\ SetWorld(Adopt(w0))
            /\ UNCHANGED <<providers, moves, cardCalls, ndisp, last, nops>>
       ELSE /\ ndisp < MaxDispatch
            /\ ndisp' = ndisp + 1
            /\ \E oc \in Outcomes :
                 SetWorld(Adopt(dispatchToAgent(w0, ReqStore, free[1], item, oc)))
            /\ StartMove(item.id, "in_progress",
                         [kind |-> "dispatched", agent |-> free, item |-> item.id])
            /\ UNCHANGED <<queue, providers, last, nops>>

WebhookDispatch(item) == webhookDispatch(item) /\ UNCHANGED req

\* clearQueue(): the file holds the empty list.
ClearQueue ==
  /\ queue' = saveQueue(<<>>)
  /\ edges' = {} /\ nav' = nav
  /\ UNCHANGED <<file, stores, procs, trace, completing, retrying, pendDone,
                 pendFin, retries, providers, moves, cardCalls, resp, ndisp,
                 last, nops, req>>

\* A handler that moves the card of a merged pull request to in_progress.
prMergeInProgress(id) ==
  /\ StartMove(id, "in_progress", [kind |-> "cardMoved", agent |-> None, item |-> id])
  /\ edges' = {} /\ nav' = nav
  /\ UNCHANGED <<file, queue, stores, procs, trace, completing, retrying,
                 pendDone, pendFin, retries, providers, ndisp, last, nops>>

\* A merged pull request whose branch names the item: the server moves the
\* card to done and then replies.
prMerge(id) ==
  /\ StartMove(id, "done", [kind |-> "cardMoved", agent |-> None, item |-> id])
  /\ edges' = {} /\ nav' = nav
  /\ UNCHANGED <<file, queue, stores, procs, trace, completing, retrying,
                 pendDone, pendFin, retries, providers, ndisp, last, nops>>

PrMerge(id) == prMerge(id) /\ UNCHANGED req

\* A loop without the catch: the failure of the last provider that can move
\* cards reaches the caller.
MoveSettleRethrow(k, ok) ==
  /\ k \in 1..Len(moves)
  /\ LET m == moves[k]
         calls == Append(m.calls, [provider |-> providers[m.idx].name, ok |-> ok])
         i == IF ok THEN 0 ELSE NextWith(providers, "moveCard", m.idx + 1)
     IN IF i # 0
          THEN /\ moves' = [moves EXCEPT ![k] = [m EXCEPT !.idx = i, !.calls = calls]]
               /\ UNCHANGED <<resp, cardCalls>>
          ELSE /\ moves' = SubSeq(moves, 1, k - 1) \o SubSeq(moves, k + 1, Len(moves))
               /\ resp' = IF ok THEN m.reply
                          ELSE [kind |-> "error", agent |-> None, item |-> m.reply.item]
               /\ cardCalls' = [id |-> m.id, status |-> m.status, calls |-> calls]
  /\ edges' = {} /\ nav' = nav
  /\ UNCHANGED <<file, queue, stores, procs, trace, completing, retrying,
                 pendDone, pendFin, retries, providers, ndisp, last, nops, req>>

\* The provider's moveCard settles: success ends the invocation, failure
\* moves on to the next provider that can move cards.
MoveSettle(k, ok) ==
  /\ k \in 1..Len(moves)
  /\ LET m == moves[k]
         calls == Append(m.calls, [provider |-> providers[m.idx].name, ok |-> ok])
         i == IF ok THEN 0 ELSE NextWith(providers, "moveCard", m.idx + 1)
     IN IF i # 0
          THEN /\ moves' = [moves EXCEPT ![k] = [m EXCEPT !.idx = i, !.calls = calls]]
               /\ UNCHANGED <<resp, cardCalls>>
          ELSE /\ moves' = SubSeq(moves, 1, k - 1) \o SubSeq(moves, k + 1, Len(moves))
               /\ resp' = m.reply
               /\ cardCalls' = [id |-> m.id, status |-> m.status, calls |-> calls]
  /\ edges' = {} /\ nav' = nav
  /\ UNCHANGED <<file, queue, stores, procs, trace, completing, retrying,
                 pendDone, pendFin, retries, providers, ndisp, last, nops, req>>

\* ------------------------------------------- operations on one store
NoOp == [op |-> "none", res |-> None]

\* One call on the dashboard's store instance, recorded in last.
StoreOp(w, op, res) ==
  /\ nops < MaxOps
  /\ SetWorld(w)
  /\ last' = [op |-> op, res |-> res]
  /\ nops' = nops + 1
  /\ UNCHANGED <<queue, providers, moves, cardCalls, resp, ndisp, req>>

Reload == StoreOp(reload(World, UiStore), "reload", None)

\* new AgentStore() over the same file takes the place of the instance.
Construct == StoreOp(reload(World, UiStore), "construct", None)

UpdateAgent(name, item) ==
  StoreOp(updateAgent(World, UiStore, name, ProvisionPartial(name, item)),
          "updateAgent", Some(name))

MarkBusy(name, item, pid) ==
  StoreOp(markBusy(World, UiStore, name, Some(item.id), Some(item.title),
                   Some(item.source), Some(branchName(name, item)),
                   Some(worktreePath(name)), Some(pid)),
          "markBusy", Some(name))

MarkDone(name) == StoreOp(markDone(World, UiStore, name), "markDone", Some(name))

MarkError(name) ==
  StoreOp(markError(World, UiStore, name, ExitMessage(1)), "markError", Some(name))

IncrementRetry(name) ==
  StoreOp(incrementRetry(World, UiStore, name), "incrementRetry", Some(name))

Release(name) == StoreOp(release(World, UiStore, name), "release", Some(name))

GetNextFreeAgent ==
  StoreOp(World, "getNextFreeAgent", getNextFreeAgent(stores[UiStore]))

\* ------------------------------------------------ github webhook handler
\* Strings the handler takes apart are sequences of characters.
UpperChars == {"A", "I", "L", "N"}
LowerChars == {"a", "b", "e", "f", "g", "m", "n", "r", "t", "u", "x"}
DigitChars == {"1", "2", "4"}
\* \w of the regular expressions
WordChars == UpperChars \cup LowerChars \cup DigitChars \cup {"_"}

AgentPrefix == <<"a", "g", "e", "n", "t", "/">>

\* The length of the run of word characters of s that starts at position i.
RECURSIVE WordRun(_, _)
WordRun(s, i) ==
  IF i > Len(s) \/ s[i] \notin WordChars THEN 0 ELSE 1 + WordRun(s, i + 1)

\* /^agent\/\w+\// matches a prefix of s: the length of the match, else 0.
PrefixMatch(s) ==
  IF Len(s) >= Len(AgentPrefix) /\ SubSeq(s, 1, Len(AgentPrefix)) = AgentPrefix
    THEN LET n == WordRun(s, Len(AgentPrefix) + 1)
             slash == Len(AgentPrefix) + n + 1
         IN IF n >= 1 /\ slash <= Len(s) /\ s[slash] = "/" THEN slash ELSE 0
    ELSE 0

\* branch.replace(/^agent\/\w+\//, "")
StripAgentPrefix(s) == SubSeq(s, PrefixMatch(s) + 1, Len(s))

\* branch.match(/^agent\/\w+\/([^-]+-?\d*)/): the prefix, then at least one
\* character that is no dash.
BranchMatches(s) ==
  /\ PrefixMatch(s) > 0
  /\ StripAgentPrefix(s) # <<>>
  /\ StripAgentPrefix(s)[1] # "-"

\* s.split("-")
RECURSIVE SplitFrom(_, _, _)
SplitFrom(s, i, cur) ==
  IF i > Len(s) THEN <<cur>>
  ELSE IF s[i] = "-" THEN <<cur>> \o SplitFrom(s, i + 1, <<>>)
  ELSE SplitFrom(s, i + 1, Append(cur, s[i]))

SplitDash(s) == SplitFrom(s, 1, <<>>)

\* An extraction that takes the first part whatever follows.
extractFirstPart(branch) ==
  IF ~BranchMatches(branch) THEN None
  ELSE Some(SplitDash(StripAgentPrefix(branch))[1])

\* extractItemIdFromBranch: /^[A-Z]+$/ on the first part and /^\d+/ on the
\* second make a compound id of the two, otherwise the first part is the id.
extractItemIdFromBranch(branch) ==
  IF ~BranchMatches(branch) THEN None
  ELSE LET parts == SplitDash(StripAgentPrefix(branch))
       IN IF /\ Len(parts) >= 2
             /\ parts[1] # <<>> /\ \A i \in 1..Len(parts[1]) : parts[1][i] \in UpperChars
             /\ parts[2] # <<>> /\ parts[2][1] \in DigitChars
            THEN Some(parts[1] \o <<"-">> \o parts[2])
            ELSE Some(parts[1])

\* parseGitHubPrMerge: a closed, merged pull request whose head branch
\* yields an item id.
parseGitHubPrMerge(body) ==
  IF body.action # "closed" THEN None
  ELSE IF ~body.merged THEN None
  ELSE IF body.ref = None \/ body.ref = Some(<<>>) THEN None
  ELSE LET itemId == extractItemIdFromBranch(body.ref[1])
       IN IF itemId = None \/ itemId = Some(<<>>) THEN None
          ELSE Some([itemId |-> itemId[1], status |-> "done"])

\* parseGitHubWebhook: an issue that was assigned or labeled is a work item.
parseGitHubWebhook(body) ==
  IF body.action \notin {"assigned", "labeled"} THEN None
  ELSE IF body.issue = None THEN None
  ELSE body.issue

\* A request body on the github route: what the handlers read of it.
NoReq == [action |-> "", merged |-> FALSE, ref |-> None, issue |-> None]

Ignored == [kind |-> "ignored", agent |-> None, item |-> ""]

\* POST /webhook/github with a parsable body: the merge of an agent's pull
\* request moves the card and replies cardMoved; otherwise the issue parser
\* decides between ignoring the event and dispatching its item.
GithubWebhook(body) ==
  /\ req' = body
  /\ LET prMergeEvent == parseGitHubPrMerge(body)
         item == parseGitHubWebhook(body)
     IN IF prMergeEvent # None
          THEN prMerge(prMergeEvent[1].itemId)
        ELSE IF item = None
          THEN /\ resp' = Ignored
               /\ edges' = {} /\ nav' = nav
               /\ UNCHANGED <<file, queue, stores, procs, trace, completing,
                              retrying, pendDone, pendFin, retries, providers,
                              moves, cardCalls, ndisp, last, nops>>
        ELSE webhookDispatch(item[1])


\* ------------------------------------------------------------ navigation
\* useNavigation: modeStack and forwardStack are the state React holds
\* (every queued updater applied); closure holds the modeStack and
\* forwardStack of the last render, which is what mode, canGoBack,
\* canGoForward, navigateBack and navigateForward of the subscribed input
\* handler read. The agent detail sub-mode, which navigates nowhere, is
\* left out.
MaxStack == 3

Last(s) == s[Len(s)]

NavKeys == {"leftArrow", "rightArrow", "escape", "t", "a", "b"}

useNavigation ==
  [modeStack |-> <<"normal">>, forwardStack |-> <<>>,
   closure |-> [modeStack |-> <<"normal">>, forwardStack |-> <<>>]]

mode(n) == Last(n.closure.modeStack)
canGoBack(n) == Len(n.closure.modeStack) > 1
canGoForward(n) == Len(n.closure.forwardStack) > 0

navigateTo(n, target) ==
  [n EXCEPT !.modeStack = IF Last(@) = target THEN @ ELSE Append(@, target),
            !.forwardStack = <<>>]

navigateBack(n) ==
  [n EXCEPT !.modeStack = IF Len(@) <= 1 THEN @ ELSE SubSeq(@, 1, Len(@) - 1),
            !.forwardStack = IF Len(n.closure.modeStack) <= 1 THEN @
                             ELSE <<mode(n)>> \o @]

navigateForward(n) ==
  IF n.closure.forwardStack = <<>> THEN n
  ELSE [n EXCEPT !.modeStack = Append(@, n.closure.forwardStack[1]),
                 !.forwardStack = IF @ = <<>> THEN @ ELSE Tail(@)]

\* The useInput handler on one key, in the agent list and in the normal and
\* time-expanded modes.
useInput(n, key) ==
  IF mode(n) = "agents"
    THEN CASE key \in {"escape", "a", "b", "leftArrow"} -> navigateBack(n)
           [] key = "rightArrow" -> navigateForward(n)
           [] key = "t" -> navigateTo(n, "time-expanded")
           [] OTHER -> n
    ELSE CASE key = "escape" -> IF canGoBack(n) THEN navigateBack(n) ELSE n
           [] key = "leftArrow" -> IF canGoBack(n) THEN navigateBack(n) ELSE n
           [] key = "rightArrow" -> IF canGoForward(n) THEN navigateForward(n) ELSE n
           [] key = "t" -> IF mode(n) = "time-expanded" THEN navigateBack(n)
                           ELSE navigateTo(n, "time-expanded")
           [] key = "a" -> navigateTo(n, "agents")
           [] key = "b" -> navigateBack(n)
           [] OTHER -> n

\* The hook renders: the handler subscribed from now on closes over the
\* state.
Rendered(n) ==
  [n EXCEPT !.closure = [modeStack |-> n.modeStack, forwardStack |-> n.forwardStack]]
\* ------------------------------------------------------ specifications
\* A configuration of two trackers: the first has every optional
\* capability, the second cannot mark items done.
MainProviders ==
  << [name |-> "Linear", caps |-> {"addComment", "moveCard", "markItemDone"}],
     [name |-> "Trello", caps |-> {"addComment", "moveCard"}] >>

ItemOf(id) == CHOOSE i \in Items : i.id = id

\* A record an earlier run can have left in the registry file.
PriorRecord(n, kind, item, pid) ==
  LET prov == Spread(defaultAgent(n), ProvisionPartial(n, item))
      busy == BusyRecord(n, Some(item.id), Some(item.title), Some(item.source),
                         Some(branchName(n, item)), Some(worktreePath(n)), Some(pid))
  IN CASE kind = "idle" -> defaultAgent(n)
       [] kind = "provisioning" -> prov
       [] kind = "working" -> busy
       [] kind = "done" -> DoneRecord(busy)
       [] kind = "error" -> ErrorRecord(prov, ProvisionMessage)
       [] kind = "failed" ->
            [ErrorRecord(prov, ProvisionMessage) EXCEPT !.retryCount = Some(MAX_RETRIES)]

\* The registry with the agents, in pool order, in the given kinds; the
\* working ones hold the pids 1 and 2 in that order.
PriorData(kinds, item) ==
  [n \in Names |->
     LET i == CHOOSE j \in 1..Len(AGENT_NAMES) : AGENT_NAMES[j] = n
         before == Cardinality({j \in 1..(i - 1) : kinds[j] = "working"})
     IN PriorRecord(n, kinds[i], item, Min(before + 1, MaxPid))]

\* Everything but the registry and the processes, as a process starts.
InitRest ==
  /\ queue = None
  /\ trace = [n \in Names |-> <<>>]
  /\ completing = {}
  /\ retrying = {}
  /\ pendDone = [n \in Names |-> None]
  /\ pendFin = [n \in Names |-> None]
  /\ retries = [n \in Names |-> 0]
  /\ edges = {} /\ nav = useNavigation
  /\ moves = <<>>
  /\ cardCalls = NoCard
  /\ resp = NoResp
  /\ ndisp = 0
  /\ last = NoOp
  /\ nops = 0
  /\ req = NoReq

\* The dashboard on a machine without a registry file.
Init ==
  /\ file = None
  /\ stores = [s \in StoreIds |-> defaultData]
  /\ procs = [p \in Pids |-> NoProc]
  /\ providers = MainProviders
  /\ InitRest

\* The automatic paths of the dashboard: dispatch, the child's events and
\* the supervisor.
NextAuto ==
  \/ \E item \in Items : DispatchItem(item)
  \/ Tick
  \/ \E a \in Names, ok \in BOOLEAN : MarkDoneSettle(a, ok)
  \/ \E a \in Names, ok \in BOOLEAN : CommentSettle(a, ok)
  \/ \E p \in Pids, code \in ExitCodes : Exit(p, code)
  \/ \E p \in Pids : Close(p)
  \/ \E p \in Pids : SpawnError(p)

SpecAuto == Init /\ [][NextAuto]_vars

\* The dashboard with the manual release of its hook.
Next ==
  \/ NextAuto
  \/ \E name \in Names : ReleaseAgent(name)

Spec == Init /\ [][Next]_vars

\* ---- one store instance over a registry file an earlier run left
StoreKinds ==
  { <<"working", "error", "done", "idle">>,
    <<"working", "working", "failed", "provisioning">> }

PriorFiles ==
  {None}
    \cup {save(PriorData(k, ItemOf("LIN-42"))) : k \in StoreKinds}
    \cup {Some([agents |-> [n \in {"flow"} |->
                   StringifyAgent(PriorRecord(n, "working", ItemOf("LIN-42"), MaxPid))]])}

\* The store as its constructor leaves it: loaded, stale processes cleaned.
Constructed(s, f, ps) ==
  LET d == load(f)
      c == cleanStaleProcesses(d, ps)
  IN /\ procs = ps
     /\ file = IF StaleChanged(d, ps) THEN save(c) ELSE f
     /\ stores = [t \in StoreIds |-> IF t = s THEN c ELSE defaultData]

InitStore ==
  /\ \E f \in PriorFiles, ps \in [Pids -> {NoProc, Orphan}] :
       Constructed(UiStore, f, ps)
  /\ providers = MainProviders
  /\ InitRest

NextStore ==
  \/ Reload
  \/ Construct
  \/ \E name \in Names, item \in {ItemOf("T-7")} : UpdateAgent(name, item)
  \/ \E name \in Names, item \in {ItemOf("T-7")}, pid \in Pids :
       MarkBusy(name, item, pid)
  \/ \E name \in Names : MarkDone(name)
  \/ \E name \in Names : MarkError(name)
  \/ \E name \in Names : IncrementRetry(name)
  \/ \E name \in Names : Release(name)
  \/ GetNextFreeAgent

SpecStore == InitStore /\ [][NextStore]_vars

\* ---- the status synchronizer under every provider configuration
\* createProviders registers the configured trackers in this order.
ProviderNames == <<"Linear", "Trello", "Jira">>

ProviderConfigs ==
  { [i \in 1..Len(ProviderNames) |-> [name |-> ProviderNames[i], caps |-> c[i]]] :
      c \in [1..Len(ProviderNames) -> SUBSET Caps] }

\* ember finished its item, or failed it MAX_RETRIES times.
SyncKinds ==
  { <<"done", "idle", "idle", "idle">>, <<"failed", "idle", "idle", "idle">> }

InitSync ==
  /\ \E k \in SyncKinds, item \in Items :
       /\ k[1] = "failed" => item = ItemOf("LIN-42")
       /\ Constructed(UiStore, save(PriorData(k, item)), [p \in Pids |-> NoProc])
  /\ providers \in ProviderConfigs
  /\ InitRest

NextSync ==
  \/ Tick
  \/ \E a \in Names, ok \in BOOLEAN : MarkDoneSettle(a, ok)
  \/ \E a \in Names, ok \in BOOLEAN : CommentSettle(a, ok)
  \/ \E item \in {ItemOf("T-7")} : PrMerge(item.id)
  \/ \E k \in 1..MaxMoves, ok \in BOOLEAN : MoveSettle(k, ok)

SpecSync == InitSync /\ [][NextSync]_vars

\* ---- the webhook server over a registry file an earlier run left
WebhookKinds ==
  { <<"idle", "idle", "idle", "idle">>,
    <<"working", "idle", "idle", "idle">>,
    <<"done", "error", "idle", "working">>,
    <<"working", "working", "done", "error">>,
    <<"error", "working", "done", "done">>,
    <<"working", "error", "done", "failed">> }

\* No store instance outlives a request; each request constructs its own.
InitWebhook ==
  /\ \E k \in WebhookKinds : file = save(PriorData(k, ItemOf("LIN-42")))
  /\ procs \in [Pids -> {NoProc, Orphan}]
  /\ stores = [s \in StoreIds |-> defaultData]
  /\ providers = MainProviders
  /\ InitRest

NextWebhook ==
  \/ \E item \in Items : WebhookDispatch(item)
  \/ \E k \in 1..MaxMoves, ok \in BOOLEAN : MoveSettle(k, ok)
  \/ \E p \in Pids, code \in ExitCodes : Exit(p, code)
  \/ \E p \in Pids : Close(p)
  \/ \E p \in Pids : SpawnError(p)
  \/ \E p \in Pids : Die(p)

SpecWebhook == InitWebhook /\ [][NextWebhook]_vars


\* ---- the github route of the webhook server
\* Bounds of the branch names explored.
MaxIdLen == 3
MaxSlugLen == 3

\* The strings over the alphabet of at most n characters, none empty.
Strings(alphabet, n) == UNION {[1..k -> alphabet] : k \in 1..n}

\* Compound ids such as LIN-42: uppercase letters, a dash, digits.
CompoundIds ==
  {u \o <<"-">> \o d : u \in Strings({"A"}, MaxIdLen - 1), d \in Strings({"1"}, MaxIdLen - 1)}

\* Bare ids such as 69932610 and abc12345: letters and digits, no dash.
BareIds == Strings({"A", "a", "1"}, MaxIdLen)

\* slugify(title): lowercase words of letters and digits joined by single dashes.
Slugs ==
  {s \in Strings({"a", "1", "-"}, MaxSlugLen) :
     /\ s[1] # "-" /\ s[Len(s)] # "-"
     /\ \A i \in 1..(Len(s) - 1) : ~(s[i] = "-" /\ s[i + 1] = "-")}

AgentStrings == {<<"e", "m", "b", "e", "r">>, <<"t", "e", "r", "r", "a">>}

\* branchName(agent, id, title): agent/{agent}/{id}-{slug}
BranchOf(agent, id, slug) == AgentPrefix \o agent \o <<"/">> \o id \o <<"-">> \o slug

AgentBranches ==
  {BranchOf(a, id, s) : a \in AgentStrings, id \in CompoundIds \cup BareIds, s \in Slugs}

\* Branches that do not start with agent/{agent}/.
OtherBranches ==
  { <<"f", "/", "a", "-", "1">>, <<"m", "a", "i", "n">>,
    <<"a", "g", "e", "n", "t">>, AgentPrefix \o <<"A", "-", "1">>,
    AgentPrefix \o <<"/", "A", "-", "1", "-", "a">>,
    <<"x">> \o BranchOf(<<"e", "m", "b", "e", "r">>, <<"A", "-", "1">>, <<"a">>) }

MergedPr(branch) ==
  [action |-> "closed", merged |-> TRUE, ref |-> Some(branch), issue |-> None]

\* A merged pull request has arrived and is about to be handled.
InitBranch ==
  /\ file = None
  /\ stores = [s \in StoreIds |-> defaultData]
  /\ procs = [p \in Pids |-> NoProc]
  /\ providers = MainProviders
  /\ queue = None
  /\ trace = [n \in Names |-> <<>>]
  /\ completing = {}
  /\ retrying = {}
  /\ pendDone = [n \in Names |-> None]
  /\ pendFin = [n \in Names |-> None]
  /\ retries = [n \in Names |-> 0]
  /\ edges = {} /\ nav = useNavigation
  /\ moves = <<>>
  /\ cardCalls = NoCard
  /\ resp = NoResp
  /\ ndisp = 0
  /\ last = NoOp
  /\ nops = 0
  /\ req \in {MergedPr(b) : b \in AgentBranches \cup OtherBranches}

\* The server handles the request it received.
HandleRequest == resp.kind = "none" /\ moves = <<>> /\ GithubWebhook(req)

NextBranch ==
  \/ HandleRequest
  \/ \E k \in 1..MaxMoves, ok \in BOOLEAN : MoveSettle(k, ok)

SpecBranch == InitBranch /\ [][NextBranch]_vars

\* The issue a github event carries, as parseGitHubWebhook normalizes it.
GithubItem == [id |-> "#12", title |-> "Fix auth flow", source |-> "GitHub"]

Lin42Id == <<"L", "I", "N", "-", "4", "2">>
Lin42Branch == BranchOf(<<"e", "m", "b", "e", "r">>, Lin42Id, <<"f", "i", "x">>)

\* Request bodies of the github route: pull request and issue events.
GithubBodies ==
  [action : {"closed", "opened", "labeled"},
   merged : BOOLEAN,
   ref : {None, Some(Lin42Branch), Some(<<"f", "/", "a", "-", "1">>)},
   issue : {None, Some(GithubItem)}]

GithubKinds ==
  { <<"idle", "idle", "idle", "idle">>, <<"working", "error", "done", "failed">> }

InitGithub ==
  /\ \E k \in GithubKinds : file = save(PriorData(k, ItemOf("LIN-42")))
  /\ procs = [p \in Pids |-> Orphan]
  /\ stores = [s \in StoreIds |-> defaultData]
  /\ providers = MainProviders
  /\ InitRest

NextGithub ==
  \/ \E body \in GithubBodies : GithubWebhook(body)
  \/ \E k \in 1..MaxMoves, ok \in BOOLEAN : MoveSettle(k, ok)
  \/ \E p \in Pids, code \in ExitCodes : Exit(p, code)
  \/ \E p \in Pids : Close(p)
  \/ \E p \in Pids : SpawnError(p)
  \/ \E p \in Pids : Die(p)

SpecGithub == InitGithub /\ [][NextGithub]_vars

\* ------------------------------------------------------------- claims
\* The registry as a newly started process reads it.
Registry == load(file)

\* C1: in every reachable state of the registry, and for every agent, the
\* status is idle if and only if workItemId is undefined.
C1_IdleIffNoWorkItem ==
  \A n \in Names : (Registry[n].status = "idle") <=> (Registry[n].workItemId = None)

\* C2: the supervisor retries one work item on one agent at most MAX_RETRIES
\* times, whether the attempts fail before or after the subprocess is launched.
C2_RetryBound == \A n \in Names : retries[n] <= MAX_RETRIES

\* The edges of the agent state machine.
StateMachineEdges ==
  { <<"idle", "provisioning">>, <<"provisioning", "working">>,
    <<"provisioning", "error">>, <<"working", "done">>, <<"working", "error">>,
    <<"done", "idle">>, <<"error", "working">>, <<"error", "idle">> }

\* C3: every change of an agent's status in the registry follows an edge of
\* the state machine (stale-process detection takes provisioning and working
\* to error), in every interleaving of dispatch, the subprocess callbacks,
\* the periodic reload and the supervisor.
C3_StatusEdges == \A e \in edges : <<e[2], e[3]>> \in StateMachineEdges

\* The pid the record names is no live process.
DeadPid(agent) ==
  agent.pid # None /\ procs[agent.pid[1]].st \notin {"running", "orphan"}

\* What stale-process detection leaves of a record.
Recovered(old, new) ==
  IF old.status \in {"working", "provisioning"} /\ DeadPid(old)
    THEN /\ new.status = "error"
         /\ new.error = Some(StaleMessage)
         /\ new.pid = None
         /\ \A f \in Fields \ {"status", "error", "pid"} : new[f] = old[f]
    ELSE new = old

\* C4: when a store is constructed or reloaded from a file in which an agent
\* is working or provisioning with a recorded pid that is not live, the agent
\* ends in error with "Process died unexpectedly", pid undefined and its
\* assignment preserved; every other agent is left as the file has it.
C4_CrashRecovery ==
  [][(nops' # nops /\ last'.op \in {"reload", "construct"}) =>
       /\ \A n \in Names : Recovered(Registry[n], stores'[UiStore][n])
       /\ load(file') = stores'[UiStore]]_vars

\* A reload found the process of an item assigned after construction dead.
C4_Witness ==
  /\ last.op = "reload"
  /\ \E n \in Names :
       /\ stores[UiStore][n].status = "error"
       /\ stores[UiStore][n].error = Some(StaleMessage)
       /\ stores[UiStore][n].workItemId = Some("T-7")
       /\ stores[UiStore][n].pid = None
  /\ \E n \in Names :
       stores[UiStore][n].status = "working" /\ stores[UiStore][n].pid # None

MutatingOps ==
  {"updateAgent", "markBusy", "markDone", "markError", "incrementRetry", "release"}

\* The document holds exactly the defined fields of the record.
SameAsDocument(agent, doc) ==
  \A f \in Fields :
    IF f \in PlainFields THEN f \in DOMAIN doc /\ doc[f] = agent[f]
    ELSE \/ agent[f] = None /\ f \notin DOMAIN doc
         \/ f \in DOMAIN doc /\ agent[f] = Some(doc[f])

\* What a store constructed now from the file reports.
Fresh == cleanStaleProcesses(load(file), procs)

\* C5: when a mutating operation on a store instance returns, the file holds
\* the in-memory state, and a new store constructed from the file reports
\* the same status and workItemId for every agent, except that a working
\* or provisioning agent with a dead pid is reported as error.
C5_ReloadRoundTrip ==
  /\ last.op \in MutatingOps =>
       /\ file # None
       /\ \A n \in Names :
            /\ n \in DOMAIN file[1].agents
            /\ SameAsDocument(stores[UiStore][n], file[1].agents[n])
  /\ \A n \in Names :
       LET mem == stores[UiStore][n]
       IN IF mem.status \in {"working", "provisioning"} /\ DeadPid(mem)
            THEN Fresh[n].status = "error" /\ Fresh[n].error = Some(StaleMessage)
            ELSE Fresh[n].status = mem.status /\ Fresh[n].workItemId = mem.workItemId

\* After a markBusy one agent is working on a dead pid, another has retried
\* and a third is done with its item.
C5_Witness ==
  /\ last.op = "markBusy"
  /\ \E n \in Names :
       /\ stores[UiStore][n].status = "working"
       /\ DeadPid(stores[UiStore][n])
       /\ Fresh[n].status = "error"
  /\ \E n \in Names :
       stores[UiStore][n].status = "done" /\ stores[UiStore][n].workItemId # None
  /\ \E n \in Names : stores[UiStore][n].retryCount # None

\* C6: getNextFreeAgent returns the first agent, in the pool order ember,
\* flow, tempest, terra, whose status is idle, undefined exactly when none
\* is idle, and modifies no agent.
C6_FirstIdleInPoolOrder ==
  [][(nops' # nops /\ last'.op = "getNextFreeAgent") =>
       LET idle == {i \in 1..Len(AGENT_NAMES) :
                      stores[UiStore][AGENT_NAMES[i]].status = "idle"}
       IN /\ AGENT_NAMES = <<"ember", "flow", "tempest", "terra">>
          /\ stores' = stores
          /\ file' = file
          /\ (last'.res = None) <=> (idle = {})
          /\ \A i \in idle :
               (\A j \in idle : i <= j) => last'.res = Some(AGENT_NAMES[i])]_vars

\* The query skipped a busy ember and answered flow.
C6_Witness ==
  /\ last.op = "getNextFreeAgent"
  /\ last.res = Some("flow")
  /\ stores[UiStore]["ember"].status # "idle"
  /\ stores[UiStore]["tempest"].status = "idle"

\* ---------------------------------------------- supervisor scenarios

\* t1 continues t0; what it adds.
Extends(t0, t1) == Len(t1) >= Len(t0) /\ SubSeq(t1, 1, Len(t0)) = t0
Added(t0, t1) == SubSeq(t1, Len(t0) + 1, Len(t1))

Event(e, x, m) == [k |-> "event", e |-> e, x |-> x, m |-> m]
Call(e, x) == [k |-> "call", e |-> e, x |-> x, m |-> ""]

\* A provider of that name is configured and has the capability.
HasCap(name, cap) ==
  \E i \in 1..Len(providers) : providers[i].name = name /\ cap \in providers[i].caps

\* The providers with the capability, from position i on, in registration order.
CapableFrom(cap, i) ==
  SelectSeq(SubSeq(providers, i, Len(providers)), LAMBDA p : cap \in p.caps)

\* The close event of a subprocess that exited with code 0 makes its agent done.
C7Close(p) ==
  (procs[p].st = "exited" /\ procs[p].code = 0 /\ procs'[p].st # "exited") =>
    LET a == procs[p].agent
    IN /\ load(file')[a].status = "done"
       /\ trace'[a] = Append(trace[a], Event("done", Some(procs[p].item), ""))

\* The pass that finds the agent done calls markItemDone on the provider
\* named like the item's source.
C7Pass(a) ==
  LET cur == Fresh[a]
  IN (/\ cur.status = "done" /\ a \notin completing
      /\ cur.workItemId # None /\ cur.workItemSource # None
      /\ HasCap(cur.workItemSource[1], "markItemDone")
      /\ Tick) =>
       /\ pendDone'[a] # None
       /\ pendDone'[a][1].snap = cur
       /\ trace'[a] = Append(trace[a], Call("markItemDone", cur.workItemSource))
       /\ load(file')[a] = cur

\* No other provider is ever called to mark the item done.
C7Call(a) ==
  (pendDone'[a] # pendDone[a] /\ pendDone'[a] # None) =>
    LET c == pendDone'[a][1]
    IN /\ c.snap.status = "done"
       /\ c.snap.workItemSource = Some(providers[c.idx].name)
       /\ "markItemDone" \in providers[c.idx].caps

\* When the provider has answered: the marked-done event (mark-done-failed
\* when it failed), the released event, and the release.
C7Settle(a) ==
  (pendDone[a] # None /\ pendDone'[a] = None) =>
    LET id == pendDone[a][1].snap.workItemId
    IN /\ \E e \in {"marked-done", "mark-done-failed"} :
            trace'[a] = trace[a] \o << Event(e, id, ""),
                                       Event("released", id, AutoReleaseMessage) >>
       /\ load(file')[a].status = "idle"
       /\ load(file')[a].workItemId = None
       /\ stores'[UiStore][a] = defaultAgent(a)
       /\ a \notin completing'

\* In the log of an assignment that was never retried, a marked-done event
\* closes the run dispatched, working, done, call of the source's provider,
\* and the released event follows it.
C7Order(t) ==
  (t # <<>> /\ t[1].e # "retry") =>
    \A i \in 1..Len(t) :
      (t[i].k = "event" /\ t[i].e = "marked-done") =>
        /\ i >= 5 /\ i < Len(t)
        /\ t[i - 4] = Event("dispatched", t[i].x, "")
        /\ t[i - 3] = Event("working", t[i].x, "")
        /\ t[i - 2] = Event("done", t[i].x, "")
        /\ t[i - 1] = Call("markItemDone", Some(ItemOf(t[i].x[1]).source))
        /\ t[i + 1] = Event("released", t[i].x, AutoReleaseMessage)

\* C7: normal completion. The close event of a subprocess that exited with
\* code 0 makes the agent done; the next supervisor pass calls markItemDone
\* on the provider whose name equals the item's source and on no other; when
\* the call returns the marked-done event, then the released event are
\* appended and the agent is released, idle with workItemId undefined; the
\* log of the agent reads dispatched, working, done, marked-done, released.
C7_NormalCompletion ==
  [][/\ \A p \in Pids : C7Close(p)
     /\ \A a \in Names : C7Pass(a) /\ C7Call(a) /\ C7Settle(a) /\ C7Order(trace'[a])]_vars

\* ember completed LIN-42 and Linear marked it done.
C7_Witness ==
  /\ trace["ember"] =
       << Event("dispatched", Some("LIN-42"), ""), Event("working", Some("LIN-42"), ""),
          Event("done", Some("LIN-42"), ""), Call("markItemDone", Some("Linear")),
          Event("marked-done", Some("LIN-42"), ""),
          Event("released", Some("LIN-42"), AutoReleaseMessage) >>
  /\ Registry["ember"].status = "idle"
  /\ Registry["ember"].workItemId = None

\* The pass that finds the agent in error with its retries used up: the
\* max-retries event, the failure log, the first provider that can comment
\* (the released event and the release when there is none), and no retry.
C8Pass(a) ==
  LET cur == Fresh[a]
      cap == CapableFrom("addComment", 1)
      head == << Event("max-retries", cur.workItemId, ""), Call("failures.log", None) >>
  IN (/\ cur.status = "error" /\ a \notin retrying
      /\ RetryCountOf(cur) >= MAX_RETRIES
      /\ Tick) =>
       /\ IF cur.workItemId # None /\ cap # <<>>
            THEN /\ trace'[a] = trace[a] \o head \o
                                  << Call("addComment", Some(cap[1].name)) >>
                 /\ pendFin'[a] # None
                 /\ pendFin'[a][1].snap = cur
                 /\ a \in retrying'
                 /\ load(file')[a] = cur
            ELSE /\ trace'[a] = trace[a] \o head \o
                                  << Event("released", cur.workItemId, MaxReleaseMessage) >>
                 /\ pendFin'[a] = None
                 /\ a \notin retrying'
                 /\ load(file')[a] = defaultAgent(a)
       /\ \A p \in Pids : procs'[p] # procs[p] => procs'[p].agent # a

\* While a comment is awaited no pass retries the agent or starts over.
C8Busy(a) ==
  (pendFin[a] # None /\ Tick) =>
    /\ pendFin'[a] = pendFin[a]
    /\ Extends(trace[a], trace'[a])
    /\ \A i \in 1..Len(Added(trace[a], trace'[a])) :
         Added(trace[a], trace'[a])[i].e \notin {"retry", "max-retries"}
    /\ retries'[a] \in {retries[a], 0}
    /\ \A p \in Pids : procs'[p] # procs[p] => procs'[p].agent # a

\* When a provider has answered: after a success, or the failure of the
\* last provider that can comment, the released event and the release;
\* after another failure the next provider that can comment.
C8Settle(a) ==
  (pendFin[a] # None /\ pendFin'[a] # pendFin[a]) =>
    LET snap == pendFin[a][1].snap
        idx == pendFin[a][1].idx
        name == Some(providers[idx].name)
        rest == CapableFrom("addComment", idx + 1)
    IN \/ /\ rest # <<>>
          /\ trace'[a] = trace[a] \o << Call("addComment.failed", name),
                                        Call("addComment", Some(rest[1].name)) >>
          /\ pendFin'[a] # None
          /\ pendFin'[a][1].snap = snap
          /\ providers[pendFin'[a][1].idx].name = rest[1].name
          /\ a \in retrying'
       \/ /\ \E r \in {"addComment.ok"} \cup
                        (IF rest = <<>> THEN {"addComment.failed"} ELSE {}) :
               trace'[a] = trace[a] \o
                 << Call(r, name), Event("released", snap.workItemId, MaxReleaseMessage) >>
          /\ pendFin'[a] = None
          /\ load(file')[a] = defaultAgent(a)
          /\ stores'[UiStore][a] = defaultAgent(a)
          /\ a \notin retrying'

\* The comment awaited belongs to an agent found in error with its retries
\* used up, and retryingRef holds the agent.
C8Pending(a) ==
  pendFin[a] # None =>
    /\ a \in retrying
    /\ pendFin[a][1].snap.status = "error"
    /\ RetryCountOf(pendFin[a][1].snap) >= MAX_RETRIES
    /\ "addComment" \in providers[pendFin[a][1].idx].caps

\* C8: exhausted retries. A pass that finds an agent in error with
\* retryCount >= MAX_RETRIES appends the max-retries event, appends to the
\* agent's failure log, then tries addComment on the providers in turn, and
\* last appends the released event and releases the agent, which is idle;
\* it starts no retry and no subprocess for the agent.
C8_ExhaustedRetries ==
  [][\A a \in Names : C8Pass(a) /\ C8Busy(a) /\ C8Settle(a) /\ C8Pending(a)']_vars

\* ember used up its retries; Linear refused the comment, Trello took it.
C8_Witness ==
  /\ Len(trace["ember"]) >= 7
  /\ SubSeq(trace["ember"], Len(trace["ember"]) - 6, Len(trace["ember"])) =
       << Event("max-retries", Some("LIN-42"), ""), Call("failures.log", None),
          Call("addComment", Some("Linear")), Call("addComment.failed", Some("Linear")),
          Call("addComment", Some("Trello")), Call("addComment.ok", Some("Trello")),
          Event("released", Some("LIN-42"), MaxReleaseMessage) >>
  /\ Registry["ember"].status = "idle"
  /\ retries["ember"] = 0

\* -------------------------------------------------- best-effort order
NamesOf(ps) == [i \in 1..Len(ps) |-> ps[i].name]

\* The calls of one operation so far follow the best-effort order: started
\* are the providers called, results how the calls that returned ended.
BestEffort(started, results, cap, complete) ==
  LET capable == NamesOf(CapableFrom(cap, 1))
  IN /\ Len(started) <= Len(capable)
     /\ \A i \in 1..Len(started) : started[i] = capable[i]
     /\ Len(results) <= Len(started)
     /\ \A i \in 1..Len(results) :
          /\ results[i].provider = started[i]
          /\ results[i].ok => i = Len(started)
     /\ complete =>
          /\ Len(results) = Len(started)
          /\ Len(started) = Len(capable) \/ (results # <<>> /\ Last(results).ok)

CallsOf(t, e) ==
  LET c == SelectSeq(t, LAMBDA x : x.k = "call" /\ x.e = e)
  IN [i \in 1..Len(c) |-> c[i].x[1]]

ResultsOf(t, ok, failed) ==
  LET c == SelectSeq(t, LAMBDA x : x.k = "call" /\ x.e \in {ok, failed})
  IN [i \in 1..Len(c) |-> [provider |-> c[i].x[1], ok |-> c[i].e = ok]]

Released(t, m) == \E i \in 1..Len(t) : t[i].k = "event" /\ t[i].e = "released" /\ t[i].m = m

\* moveCard: the invocations under way and the last one that returned.
NamesOfCalls(calls) == [i \in 1..Len(calls) |-> calls[i].provider]

MoveCallsInOrder ==
  /\ \A k \in 1..Len(moves) :
       BestEffort(NamesOfCalls(moves[k].calls) \o << providers[moves[k].idx].name >>,
                  moves[k].calls, "moveCard", FALSE)
  /\ cardCalls.id # "" =>
       BestEffort(NamesOfCalls(cardCalls.calls), cardCalls.calls, "moveCard", TRUE)

\* addComment of the max-retries path.
CommentsInOrder ==
  \A a \in Names :
    /\ BestEffort(CallsOf(trace[a], "addComment"),
                  ResultsOf(trace[a], "addComment.ok", "addComment.failed"),
                  "addComment", Released(trace[a], MaxReleaseMessage))
    /\ pendFin[a] # None <=>
         Len(CallsOf(trace[a], "addComment")) >
           Len(ResultsOf(trace[a], "addComment.ok", "addComment.failed"))

\* How the markItemDone calls for the agent ended, from the events.
MarkResults(a) ==
  LET c == SelectSeq(trace[a], LAMBDA x : x.k = "event" /\
                                 x.e \in {"marked-done", "mark-done-failed"})
      s == CallsOf(trace[a], "markItemDone")
  IN [i \in 1..Len(c) |->
        [provider |-> IF i <= Len(s) THEN s[i] ELSE "", ok |-> c[i].e = "marked-done"]]

\* markItemDone is called once at most, on the provider named like the
\* source of the agent's item, whether or not it comes first, and only
\* when that provider has the capability; no other provider is tried.
MarkDoneBySource ==
  \A a \in Names :
    LET s == CallsOf(trace[a], "markItemDone")
    IN /\ Len(s) <= 1
       /\ Len(MarkResults(a)) <= Len(s)
       /\ pendDone[a] # None =>
            s = << pendDone[a][1].snap.workItemSource[1] >> /\ MarkResults(a) = <<>>
       /\ \A i \in 1..Len(trace[a]) :
            (trace[a][i].k = "event" /\ trace[a][i].e = "released"
               /\ trace[a][i].m = AutoReleaseMessage /\ trace[a][i].x # None) =>
              LET source == ItemOf(trace[a][i].x[1]).source
              IN /\ s = IF HasCap(source, "markItemDone") THEN << source >> ELSE <<>>
                 /\ Len(MarkResults(a)) = Len(s)

\* markItemDone tried like the other two operations.
MarkDoneInOrder ==
  \A a \in Names :
    BestEffort(CallsOf(trace[a], "markItemDone"), MarkResults(a), "markItemDone",
               Released(trace[a], AutoReleaseMessage))

QueueItems == IF queue = None THEN <<>> ELSE queue[1]

NoneIdle(d) == \A n \in Names : d[n].status # "idle"

\* What a webhookDispatch that finds no agent idle does, but for the registry.
C10Queued ==
  /\ NoneIdle(Fresh)
  /\ resp'.kind = "queued"
  /\ resp'.agent = None
  /\ \E item \in Items :
       resp'.item = item.id /\ queue' = Some(Append(QueueItems, item))
  /\ procs' = procs
  /\ moves' = moves
  /\ trace' = trace

C10Queues ==
  \A item \in Items :
    (NoneIdle(Fresh) /\ WebhookDispatch(item)) =>
       queue' = Some(Append(QueueItems, item))

\* C10 (as amended): when webhookDispatch is called for item X while no
\* agent is idle, the response is dispatched:false, queued:true, X becomes
\* the last element of the persisted queue, no subprocess is launched, and
\* the only agent records that change are those of working or provisioning
\* agents whose recorded pid is not live, which the store the call
\* constructs saves as error.
C10_Queueing ==
  [][/\ queue' # queue => C10Queued /\ load(file') = Fresh
     /\ C10Queues]_vars

\* C10 as stated: no agent record changes.
C10_NoRecordChanges ==
  [][/\ queue' # queue => C10Queued /\ load(file') = load(file)
     /\ C10Queues]_vars

\* Two items were queued, the later one last, with no agent idle.
C10_Witness ==
  /\ resp.kind = "queued"
  /\ resp.item = "T-7"
  /\ Len(QueueItems) = 2
  /\ QueueItems[1].id = "LIN-42"
  /\ QueueItems[2].id = "T-7"
  /\ NoneIdle(Registry)
  /\ \E n \in Names : Registry[n].error = Some(StaleMessage)

\* ------------------------------------------------- github webhook route
\* The request has been handled.
Handled == resp.kind # "none" \/ moves # <<>>

\* The id the handler passed to moveCard, if it took the merge path.
MovedId ==
  IF moves # <<>> THEN Some(moves[1].id)
  ELSE IF resp.kind = "cardMoved" THEN Some(resp.item)
  ELSE None

AllUpper(s) == \A i \in 1..Len(s) : s[i] \in UpperChars

\* The bare id and the slug read together like a compound id.
ReadsAsCompound(id, slug) == AllUpper(id) /\ slug[1] \in DigitChars

\* Every branch that does not start with agent/{agent}/ yields no id.
NoIdElsewhere ==
  (Handled /\ req.ref # None /\ req.ref[1] \in OtherBranches) =>
    MovedId = None /\ resp.kind = "ignored"

\* C12 (as amended): for every branch agent/{agent}/{id}-{slug} where id is
\* a compound id (uppercase letters, a dash, digits) or a bare alphanumeric
\* id, and slug is any slug, the extracted id equals id, unless the bare id
\* consists of uppercase letters only and the slug starts with a digit; a
\* branch not starting with agent/{agent}/ yields no id.
C12_IdFromBranch ==
  /\ \A a \in AgentStrings, id \in CompoundIds \cup BareIds, slug \in Slugs :
       (/\ Handled
        /\ req.ref = Some(BranchOf(a, id, slug))
        /\ id \in BareIds => ~ReadsAsCompound(id, slug)) =>
          MovedId = Some(id)
  /\ NoIdElsewhere

\* C12 as stated: every compound or bare id is recovered, whatever the slug.
C12_EveryIdRecovered ==
  /\ \A a \in AgentStrings, id \in CompoundIds \cup BareIds, slug \in Slugs :
       (Handled /\ req.ref = Some(BranchOf(a, id, slug))) => MovedId = Some(id)
  /\ NoIdElsewhere

\* The card of A-1 was moved for a branch whose slug starts with a digit.
C12_Witness ==
  /\ req.ref = Some(BranchOf(<<"e", "m", "b", "e", "r">>, <<"A", "-", "1">>, <<"1", "-", "a">>))
  /\ resp.kind = "cardMoved"
  /\ resp.item = <<"A", "-", "1">>
  /\ cardCalls.id = <<"A", "-", "1">>

\* The payload is a closed, merged pull request on a branch agent/{agent}/{id}-{slug}.
IsAgentMerge(body) ==
  /\ body.action = "closed"
  /\ body.merged
  /\ body.ref = Some(Lin42Branch)

\* One moveCard invocation for the id with status done, whose reply is
\* cardMoved, was started and nothing else happened.
C11Moved(id) ==
  LET reply == [kind |-> "cardMoved", agent |-> None, item |-> id]
      first == CapableFrom("moveCard", 1)
  IN /\ IF first = <<>>
          THEN /\ moves' = moves
               /\ cardCalls' = [id |-> id, status |-> "done", calls |-> <<>>]
               /\ resp' = reply
          ELSE /\ Len(moves') = Len(moves) + 1
               /\ SubSeq(moves', 1, Len(moves)) = moves
               /\ Last(moves').id = id
               /\ Last(moves').status = "done"
               /\ Last(moves').reply = reply
               /\ Last(moves').calls = <<>>
               /\ providers[Last(moves').idx].name = first[1].name
     /\ file' = file /\ stores' = stores /\ procs' = procs
     /\ queue' = queue /\ ndisp' = ndisp /\ trace' = trace

\* The reply of a finished move to done is the cardMoved response.
C11Replied ==
  (Len(moves') < Len(moves) /\ cardCalls'.status = "done") =>
     /\ resp'.kind = "cardMoved"
     /\ resp'.item = cardCalls'.id
     /\ file' = file /\ procs' = procs /\ queue' = queue /\ ndisp' = ndisp

\* C11: a github webhook whose payload is a closed, merged pull request on
\* a branch agent/{agent}/{id}-{slug} starts exactly one moveCard with the
\* extracted id and status done, is answered with cardMoved, and neither
\* claims an agent, nor dispatches, nor appends to the pending queue.
C11_MergeShortCircuit ==
  [][/\ \A body \in GithubBodies :
          (IsAgentMerge(body) /\ GithubWebhook(body)) => C11Moved(Lin42Id)
     /\ C11Replied]_vars

\* The merge of ember's pull request for LIN-42 was answered while ember
\* was idle and the queue empty.
C11_Witness ==
  /\ IsAgentMerge(req)
  /\ resp.kind = "cardMoved"
  /\ resp.item = Lin42Id
  /\ cardCalls.status = "done"
  /\ Len(cardCalls.calls) = 2
  /\ Registry["ember"].status = "idle"
  /\ queue = None
  /\ ndisp = 0

\* --------------------------------------------- frames of the store methods
\* The step is a call of the method on the dashboard's store.
Called(op) == nops' # nops /\ last'.op = op

\* The record of the agent the call named, before and after.
Before == stores[UiStore][last'.res[1]]
After == stores'[UiStore][last'.res[1]]

\* Every agent but the named one is as it was, in memory and in the file.
OthersUnchanged ==
  \A n \in Names \ {last'.res[1]} :
    /\ stores'[UiStore][n] = stores[UiStore][n]
    /\ load(file')[n] = stores[UiStore][n]

\* C13: markBusy leaves retryCount untouched: after markBusy the record is
\* working with the given item, branch, workspace and pid, its error is
\* cleared and its retryCount is what it was before.
C13_MarkBusyKeepsRetryCount ==
  [][Called("markBusy") =>
       /\ After.status = "working"
       /\ After.workItemId = Some("T-7")
       /\ After.branch # None /\ After.worktreePath # None /\ After.pid # None
       /\ After.error = None
       /\ After.retryCount = Before.retryCount]_vars

\* C14: release resets exactly the named agent to the idle default: name,
\* status idle and every other field undefined, in memory and in the file,
\* whatever the status before; every other agent's record is unchanged.
C14_ReleaseResets ==
  [][Called("release") =>
       /\ After.name = last'.res[1]
       /\ After.status = "idle"
       /\ \A f \in OptFields : After[f] = None
       /\ file' # None
       /\ DOMAIN file'[1].agents[last'.res[1]] = {"name", "status"}
       /\ load(file')[last'.res[1]] = After
       /\ OthersUnchanged]_vars

\* flow, which had an item, a pid or an error and a retry count, was released
\* next to a busy ember.
C14_Witness ==
  /\ last = [op |-> "release", res |-> Some("flow")]
  /\ nops = MaxOps
  /\ stores[UiStore]["flow"] = defaultAgent("flow")
  /\ stores[UiStore]["ember"].status = "working"
  /\ stores[UiStore]["tempest"].retryCount = Some(MAX_RETRIES + 1)

\* C15: markDone and markError change only the named agent's status (done,
\* error), clear its pid and, for markError, store the message in error;
\* its other fields and every other agent's record are unchanged.
C15_MarkDoneMarkErrorFrame ==
  [][/\ Called("markDone") =>
          /\ After.status = "done"
          /\ After.pid = None
          /\ \A f \in Fields \ {"status", "pid"} : After[f] = Before[f]
          /\ load(file')[last'.res[1]] = After
          /\ OthersUnchanged
     /\ Called("markError") =>
          /\ After.status = "error"
          /\ After.pid = None
          /\ After.error = Some(ExitMessage(1))
          /\ \A f \in Fields \ {"status", "pid", "error"} : After[f] = Before[f]
          /\ load(file')[last'.res[1]] = After
          /\ OthersUnchanged]_vars

\* A working agent with a pid and a retry count was marked done.
C15_Witness ==
  /\ last.op = "markDone"
  /\ \E n \in Names :
       /\ last.res = Some(n)
       /\ stores[UiStore][n].status = "done"
       /\ stores[UiStore][n].workItemId = Some("T-7")
       /\ stores[UiStore][n].pid = None
       /\ stores[UiStore][n].startedAt # None
  /\ \E n \in Names : stores[UiStore][n].status = "working"

\* C16: in every reachable state, in the file and in every store, an agent
\* has a pid only if its status is provisioning or working: no idle, done
\* or error agent has one, after any sequence of dispatch, retry, exit
\* callbacks, stale-process detection and release.
C16_PidOnlyWhileBusy ==
  \A n \in Names :
    /\ Registry[n].pid # None => Registry[n].status \in {"provisioning", "working"}
    /\ \A s \in StoreIds :
         stores[s][n].pid # None => stores[s][n].status \in {"provisioning", "working"}

\* ember's subprocess, which had a pid, exited with code 1 and was retried
\* into another failure.
C16_Witness ==
  /\ Registry["ember"].status = "error"
  /\ Registry["ember"].error = Some(ExitMessage(1))
  /\ Registry["ember"].pid = None
  /\ Registry["ember"].startedAt # None
  /\ retries["ember"] >= 1

\* The record of an agent whose provisioning for the item failed.
FailedProvision(a, item, rec) ==
  /\ rec.name = a
  /\ rec.status = "error"
  /\ rec.error = Some(ProvisionMessage)
  /\ rec.workItemId = Some(item.id)
  /\ rec.workItemTitle = Some(item.title)
  /\ rec.workItemSource = Some(item.source)
  /\ rec.branch = Some(branchName(a, item))
  /\ rec.worktreePath = Some(worktreePath(a))
  /\ rec.pid = None
  /\ rec.startedAt = None

\* C17: dispatchToAgent writes the agent as provisioning, with the item,
\* before it provisions or launches; when a step before the launch throws
\* the agent ends in error with the item and that failure's message, the
\* attempt has no subprocess, and the dispatch returns normally (the
\* caller's reload runs).
C17_ProvisioningFirst ==
  [][ndisp' # ndisp =>
       \E a \in Names, item \in Items :
         /\ getNextFreeAgent(stores[UiStore]) = Some(a)
         /\ <<a, "idle", "provisioning">> \in edges'
         /\ Len(trace'[a]) > Len(trace[a])
         /\ trace'[a][Len(trace[a]) + 1] = Event("dispatched", Some(item.id), "")
         /\ \A n \in Names \ {a} : trace'[n] = trace[n] /\ load(file')[n] = Fresh[n]
         /\ stores'[UiStore] = load(file')
         /\ IF procs' = procs
              THEN /\ FailedProvision(a, item, load(file')[a])
                   /\ <<a, "provisioning", "error">> \in edges'
                   /\ trace'[a] = trace[a] \o
                        << Event("dispatched", Some(item.id), ""),
                           Event("error", Some(item.id), ProvisionMessage) >>
              ELSE /\ load(file')[a].status = "working"
                   /\ load(file')[a].workItemId = Some(item.id)
                   /\ <<a, "provisioning", "working">> \in edges'
                   /\ \E p \in Pids : procs[p].st = "none" /\ procs'[p].agent = a
                                      /\ procs'[p].item = item.id]_vars

\* ember's provisioning for LIN-42 failed: it is in error with the item and
\* no subprocess exists.
C17_Witness ==
  /\ FailedProvision("ember", ItemOf("LIN-42"), Registry["ember"])
  /\ trace["ember"] = << Event("dispatched", Some("LIN-42"), ""),
                         Event("error", Some("LIN-42"), ProvisionMessage) >>
  /\ \A p \in Pids : procs[p].st = "none"
  /\ ndisp = 1

\* --------------------------------------------------- subprocess outcomes
\* The step delivers the close event of child p / the error event of p.
Closes(p) == procs[p].st = "exited" /\ procs'[p].st = "none"
Errors(p) == procs[p].st = "failed" /\ procs'[p].st = "exited"

\* C18: a close event with exit code 0 makes the child's agent done; with
\* any other code error with "Process exited with code <code>"; an error
\* event makes it error with the error's message. Whatever the agent's
\* record was before the event, only the exit code decides.
C18_OutcomeMapping ==
  [][\A p \in Pids :
       LET a == procs[p].agent
           rec == load(file')[a]
           mem == stores'[procs[p].store][a]
       IN /\ Closes(p) /\ procs[p].code = 0 =>
               /\ rec.status = "done" /\ mem.status = "done"
               /\ Last(trace'[a]) = Event("done", Some(procs[p].item), "")
          /\ Closes(p) /\ procs[p].code # 0 =>
               /\ rec.status = "error" /\ mem.status = "error"
               /\ rec.error = Some(ExitMessage(procs[p].code))
               /\ Last(trace'[a]) =
                    Event("error", Some(procs[p].item), ExitMessage(procs[p].code))
          /\ Errors(p) =>
               /\ rec.status = "error" /\ mem.status = "error"
               /\ rec.error = Some(SpawnMessage)
               /\ Last(trace'[a]) = Event("error", Some(procs[p].item), SpawnMessage)
    ]_vars

\* A close event with code 0 arrived for an agent already recorded as in
\* error (its process was found dead first) and made it done.
C18_Witness ==
  /\ <<"ember", "error", "done">> \in edges
  /\ Registry["ember"].status = "done"
  /\ Last(trace["ember"]).e = "done"

\* ------------------------------------------------------ in-flight guards
\* What the step adds to the agent's log (a retry event starts it again).
NewEntries(a) ==
  IF Extends(trace[a], trace'[a]) THEN Added(trace[a], trace'[a]) ELSE trace'[a]

HowMany(s, k, es) == Cardinality({i \in 1..Len(s) : s[i].k = k /\ s[i].e \in es})

AutoReleases(a) ==
  LET ne == NewEntries(a)
  IN Cardinality({i \in 1..Len(ne) : ne[i].e = "released" /\ ne[i].m = AutoReleaseMessage})

MaxReleases(a) ==
  LET ne == NewEntries(a)
  IN Cardinality({i \in 1..Len(ne) : ne[i].e = "released" /\ ne[i].m = MaxReleaseMessage})

\* While markItemDone is awaited for the agent no step starts another call;
\* the released event of the done branch comes once, when it settles.
C19Done(a) ==
  LET calls == HowMany(NewEntries(a), "call", {"markItemDone"})
      released == AutoReleases(a)
  IN /\ calls <= 1
     /\ released <= 1
     /\ pendDone[a] # None =>
          /\ a \in completing
          /\ calls = 0
          /\ IF pendDone'[a] = pendDone[a]
               THEN released = 0 /\ a \in completing'
               ELSE pendDone'[a] = None /\ released = 1 /\ a \notin completing'
     /\ (pendDone[a] = None /\ pendDone'[a] # None) =>
          /\ a \notin completing
          /\ calls = 1
          /\ released = 0

\* While the max-retries handling awaits a comment no step starts a retry
\* or another max-retries handling, and no step but a dispatch of the user
\* (after a manual release) launches a subprocess for the agent.
C19Retry(a) ==
  LET starts == HowMany(NewEntries(a), "event", {"retry", "max-retries"})
      released == MaxReleases(a)
  IN /\ starts <= 1
     /\ released <= 1
     /\ a \in retrying <=> pendFin[a] # None
     /\ pendFin[a] # None =>
          /\ starts = 0
          /\ ndisp' = ndisp =>
               \A p \in Pids : procs[p].st = "none" /\ procs'[p].st # "none" =>
                                procs'[p].agent # a
          /\ IF pendFin'[a] # None
               THEN released = 0 /\ a \in retrying'
               ELSE released = 1 /\ a \notin retrying'

\* Each branch looks at its own set only.
C19Independent(a) ==
  /\ (/\ a \in completing /\ a \notin retrying /\ Fresh[a].status = "error"
      /\ Tick) =>
        IF RetryCountOf(Fresh[a]) < MAX_RETRIES
          THEN /\ trace'[a] # <<>> /\ trace'[a][1].e = "retry"
               /\ \/ load(file')[a].status = "working"
                  \/ RetryCountOf(load(file')[a]) = RetryCountOf(Fresh[a]) + 1
          ELSE HowMany(NewEntries(a), "event", {"max-retries"}) = 1
  /\ (/\ a \in retrying /\ a \notin completing /\ Fresh[a].status = "done"
      /\ Tick) =>
        \/ pendDone'[a] # None
        \/ AutoReleases(a) = 1

\* C19: the supervisor does not process an agent twice in the same way at
\* once: while a done-finalization is in flight no pass starts another
\* (markItemDone is called at most once, the agent is released once), while
\* a max-retries handling is in flight no pass starts a retry or another
\* handling; the done guard and the retry guard do not block each other.
C19_InFlightGuards ==
  [][\A a \in Names : C19Done(a) /\ C19Retry(a) /\ C19Independent(a)]_vars

\* Both are in flight for ember: a comment of the max-retries handling and
\* the markItemDone call that a later pass started.
C19_Witness ==
  /\ pendDone["ember"] # None
  /\ pendFin["ember"] # None
  /\ {"ember"} \subseteq completing \cap retrying

\* ------------------------------------------------ failed synchronization
\* The agent has been released: idle, without item, in the dashboard's
\* store and in the file.
IdleAgain(a) ==
  /\ load(file')[a] = defaultAgent(a)
  /\ stores'[UiStore][a] = defaultAgent(a)

\* C20: a failed tracker call does not block the release. When the
\* markItemDone call for a done agent fails, and when the addComment call
\* on the last provider that can comment fails after all others failed, the
\* same step appends the failure and the released event and releases the
\* agent, which is idle; the step completes and the agent leaves the
\* in-flight set.
C20_FailureDoesNotBlockRelease ==
  [][\A a \in Names :
       /\ (pendDone[a] # None /\ MarkDoneSettle(a, FALSE)) =>
            /\ trace'[a] = trace[a] \o
                 << Event("mark-done-failed", pendDone[a][1].snap.workItemId, ""),
                    Event("released", pendDone[a][1].snap.workItemId, AutoReleaseMessage) >>
            /\ IdleAgain(a)
            /\ pendDone'[a] = None /\ a \notin completing'
       /\ (/\ pendFin[a] # None
           /\ CapableFrom("addComment", pendFin[a][1].idx + 1) = <<>>
           /\ CommentSettle(a, FALSE)) =>
            /\ trace'[a] = trace[a] \o
                 << Call("addComment.failed", Some(providers[pendFin[a][1].idx].name)),
                    Event("released", pendFin[a][1].snap.workItemId, MaxReleaseMessage) >>
            /\ IdleAgain(a)
            /\ pendFin'[a] = None /\ a \notin retrying'
    ]_vars

\* Linear refused to mark LIN-42 done; ember was released all the same.
C20_Witness ==
  /\ Len(trace["ember"]) >= 3
  /\ SubSeq(trace["ember"], Len(trace["ember"]) - 2, Len(trace["ember"])) =
       << Call("markItemDone", Some("Linear")),
          Event("mark-done-failed", Some("LIN-42"), ""),
          Event("released", Some("LIN-42"), AutoReleaseMessage) >>
  /\ Registry["ember"] = defaultAgent("ember")
  /\ "ember" \notin completing

\* ------------------------------------------- moveCard on its own
\* type CardStatus
CardStatuses == {"in_progress", "in_review", "done"}

\* Provider lists of every length up to three, each provider with or
\* without moveCard.
MoveConfigs ==
  UNION { { [i \in 1..n |-> [name |-> ProviderNames[i], caps |-> c[i]]] :
              c \in [1..n -> {{}, {"moveCard"}}] } :
          n \in 0..Len(ProviderNames) }

Returned(id) == [kind |-> "returned", agent |-> None, item |-> id]

\* A caller awaits moveCard(providers, id, status).
MoveCard(id, status) ==
  /\ StartMove(id, status, Returned(id))
  /\ edges' = {} /\ nav' = nav
  /\ UNCHANGED <<file, queue, stores, procs, trace, completing, retrying,
                 pendDone, pendFin, retries, providers, ndisp, last, nops, req>>

InitMove ==
  /\ file = None
  /\ stores = [s \in StoreIds |-> defaultData]
  /\ procs = [p \in Pids |-> NoProc]
  /\ providers \in MoveConfigs
  /\ InitRest

NextMove ==
  \/ \E status \in CardStatuses : MoveCard("LIN-42", status)
  \/ \E k \in 1..MaxMoves, ok \in BOOLEAN : MoveSettle(k, ok)

SpecMove == InitMove /\ [][NextMove]_vars

\* An invocation under way awaits a provider that can move cards.
InFlightMove(m) ==
  /\ m.idx \in 1..Len(providers)
  /\ "moveCard" \in providers[m.idx].caps
  /\ Len(m.calls) < m.idx

\* C21: moveCard never fails its caller. For every provider list (empty,
\* without the capability, all failing) and every status: an invocation
\* with no provider able to move cards returns at once; every answer of a
\* provider either ends the invocation, which returns normally, or is a
\* failure followed by the call of a later provider; the number of calls
\* never exceeds the number of providers.
C21_MoveCardNeverFails ==
  [][/\ \A k \in 1..Len(moves') : InFlightMove(moves'[k])
     /\ \A status \in CardStatuses :
          MoveCard("LIN-42", status) =>
            IF CapableFrom("moveCard", 1) = <<>>
              THEN /\ resp' = Returned("LIN-42")
                   /\ moves' = moves
                   /\ cardCalls' = [id |-> "LIN-42", status |-> status, calls |-> <<>>]
              ELSE /\ Len(moves') = Len(moves) + 1
                   /\ Last(moves').status = status
                   /\ providers[Last(moves').idx].name = CapableFrom("moveCard", 1)[1].name
                   /\ resp' = resp
     /\ \A k \in 1..Len(moves), ok \in BOOLEAN :
          MoveSettle(k, ok) =>
            \/ /\ Len(moves') = Len(moves) - 1
               /\ resp' = Returned(moves[k].id)
               /\ cardCalls'.status = moves[k].status
               /\ Len(cardCalls'.calls) <= Len(providers)
               /\ ok \/ CapableFrom("moveCard", moves[k].idx + 1) = <<>>
            \/ /\ ~ok
               /\ Len(moves') = Len(moves)
               /\ moves'[k].idx > moves[k].idx
               /\ resp' = resp
    ]_vars

\* Three providers, all able to move cards, all failed: moveCard returned.
C21_Witness ==
  /\ Len(providers) = 3
  /\ Len(cardCalls.calls) = 3
  /\ \A i \in 1..3 : ~cardCalls.calls[i].ok
  /\ cardCalls.status = "in_review"
  /\ resp = Returned("LIN-42")
  /\ moves = <<>>

\* ------------------------------------- markWorkItemDone on its own
\* Provider lists of up to two trackers, names possibly equal, each with
\* or without markItemDone.
MarkConfigs ==
  UNION { [1..n -> [name : {"Linear", "Trello"}, caps : {{}, {"markItemDone"}}]] :
          n \in 0..2 }

\* ember is done; its item's id and source are present, empty or missing.
DoneAgents ==
  { [PriorRecord("ember", "done", ItemOf("LIN-42"), 1)
       EXCEPT !.workItemId = id, !.workItemSource = source] :
      id \in {None, Some(""), Some("LIN-42")},
      source \in {None, Some(""), Some("Linear"), Some("Jira")} }

InitMark ==
  /\ \E agent \in DoneAgents :
       Constructed(UiStore, save([defaultData EXCEPT !["ember"] = agent]),
                   [p \in Pids |-> NoProc])
  /\ providers \in MarkConfigs
  /\ InitRest

\* The pass of the supervisor that calls markWorkItemDone, and the answer
\* of the provider.
NextMark ==
  \/ Tick
  \/ \E a \in Names, ok \in BOOLEAN : MarkDoneSettle(a, ok)

SpecMark == InitMark /\ [][NextMark]_vars

\* The positions of the providers named like the source.
Matching(source) ==
  {j \in 1..Len(providers) : source # None /\ providers[j].name = source[1]}

FirstMatching(source) == CHOOSE j \in Matching(source) : \A l \in Matching(source) : j <= l

\* C22: markWorkItemDone calls markItemDone, for the agent's workItemId, on
\* one provider at most: the first whose name equals the agent's
\* workItemSource. It calls nobody when the id or the source is missing,
\* when no name matches, or when that first match lacks markItemDone; a
\* provider of another name is never called; it returns normally (the
\* release follows) whether the call succeeds or fails.
C22_MarkDoneOnMatchingProvider ==
  [][\A a \in Names :
       /\ (Fresh[a].status = "done" /\ a \notin completing /\ Tick) =>
            LET cur == Fresh[a]
            IN IF /\ TruthyStr(cur.workItemId) /\ TruthyStr(cur.workItemSource)
                  /\ Matching(cur.workItemSource) # {}
                  /\ "markItemDone" \in providers[FirstMatching(cur.workItemSource)].caps
                 THEN /\ pendDone'[a] = Some([snap |-> cur,
                                              idx |-> FirstMatching(cur.workItemSource)])
                      /\ trace'[a] = Append(trace[a],
                                            Call("markItemDone", cur.workItemSource))
                      /\ load(file')[a] = cur
                 ELSE /\ pendDone'[a] = None
                      /\ trace'[a] = Append(trace[a],
                           Event("released", cur.workItemId, AutoReleaseMessage))
                      /\ load(file')[a] = defaultAgent(a)
       /\ \A ok \in BOOLEAN :
            (pendDone[a] # None /\ MarkDoneSettle(a, ok)) =>
              /\ pendDone'[a] = None
              /\ trace'[a] = trace[a] \o
                   << Event(IF ok THEN "marked-done" ELSE "mark-done-failed",
                            pendDone[a][1].snap.workItemId, ""),
                      Event("released", pendDone[a][1].snap.workItemId,
                            AutoReleaseMessage) >>
       /\ Len(CallsOf(trace'[a], "markItemDone")) <= 1
    ]_vars

\* Two providers are named Linear and only the second can mark items done:
\* ember, done with LIN-42, was released without any call.
C22_Witness ==
  /\ Len(providers) = 2
  /\ providers[1] = [name |-> "Linear", caps |-> {}]
  /\ providers[2] = [name |-> "Linear", caps |-> {"markItemDone"}]
  /\ trace["ember"] = << Event("released", Some("LIN-42"), AutoReleaseMessage) >>
  /\ Registry["ember"] = defaultAgent("ember")

\* ------------------- the dashboard and the webhook server side by side
\* No agent is idle: ember is done, the others work in live processes of
\* an earlier run.
QueueKinds == { <<"done", "working", "working", "working">> }

InitQueue ==
  /\ \E k \in QueueKinds :
       Constructed(UiStore, save(PriorData(k, ItemOf("LIN-42"))),
                   [p \in Pids |-> Orphan])
  /\ providers = MainProviders
  /\ InitRest

\* Webhook deliveries, the supervisor of the dashboard, the manual release
\* and the queue's clear operation over the same files.
NextQueue ==
  \/ \E item \in Items : WebhookDispatch(item)
  \/ \E k \in 1..MaxMoves, ok \in BOOLEAN : MoveSettle(k, ok)
  \/ Tick
  \/ \E a \in Names, ok \in BOOLEAN : MarkDoneSettle(a, ok)
  \/ \E a \in Names, ok \in BOOLEAN : CommentSettle(a, ok)
  \/ \E name \in {"ember", "flow"} : ReleaseAgent(name)
  \/ ClearQueue

SpecQueue == InitQueue /\ [][NextQueue]_vars

\* The step is clearQueue and nothing else.
Cleared ==
  /\ queue' = Some(<<>>)
  /\ UNCHANGED <<file, stores, procs, trace, completing, retrying, pendDone,
                 pendFin, retries, moves, cardCalls, resp, ndisp>>

\* C23: the pending queue is FIFO. Each delivery that is queued puts its
\* item behind the items already there and leaves those as they were; no
\* other step changes what getQueue returns, except clearQueue, which
\* empties it. So getQueue returns the queued deliveries since the last
\* clearQueue in arrival order, none lost, doubled or moved.
C23_QueueFifo ==
  [][/\ \A item \in Items :
          (NoneIdle(Fresh) /\ WebhookDispatch(item)) =>
            /\ getQueue' = Append(QueueItems, item)
            /\ resp'.kind = "queued" /\ resp'.item = item.id
     /\ QueueItems' # QueueItems =>
          \/ Cleared /\ getQueue' = <<>>
          \/ /\ NoneIdle(Fresh)
             /\ \E item \in Items : QueueItems' = Append(QueueItems, item)
    ]_vars

\* T-7 was queued first, LIN-42 second.
C23_Witness ==
  /\ getQueue = << ItemOf("T-7"), ItemOf("LIN-42") >>
  /\ resp.kind = "queued" /\ resp.item = "LIN-42"

\* C24: no automatic drain. A step that shortens the queue is clearQueue;
\* a step in which an agent becomes idle leaves the queue as it is and
\* dispatches nothing; a delivery that is dispatched is the delivered item,
\* not a queued one, and leaves the queue as it is.
C24_NoAutomaticDrain ==
  [][/\ Len(QueueItems') < Len(QueueItems) => Cleared
     /\ \A a \in Names :
          (load(file)[a].status # "idle" /\ load(file')[a].status = "idle") =>
            /\ queue' = queue
            /\ ndisp' = ndisp
            /\ \A p \in Pids : procs'[p] = procs[p]
            /\ \A n \in Names :
                 Len(SelectSeq(trace'[n], LAMBDA x : x.e = "dispatched")) =
                 Len(SelectSeq(trace[n], LAMBDA x : x.e = "dispatched"))
     /\ ndisp' # ndisp =>
          /\ queue' = queue
          /\ \E item \in Items, a \in Names :
               /\ WebhookDispatch(item)
               /\ Fresh[a].status = "idle"
               /\ load(file')[a].workItemId = Some(item.id)
    ]_vars

\* ember is idle again while two deliveries wait in the queue.
C24_Witness ==
  /\ Len(QueueItems) = 2
  /\ Registry["ember"].status = "idle"
  /\ Released(trace["ember"], AutoReleaseMessage)
  /\ ndisp = 0

\* ------------------------------------------ the shared-secret check
\* The secret the server was started with.
WebhookSecret == Some("s3cret")

\* What the x-webhook-secret header of a request can hold.
SecretHeaders == {None, Some("guess"), WebhookSecret}

\* POST /webhook/github requests: the header and the parsed body.
SecretRequests ==
  [action : {"closed", "labeled"},
   merged : {TRUE},
   ref : {Some(Lin42Branch)},
   issue : {None, Some(GithubItem)},
   secret : SecretHeaders]

Unauthorized == [kind |-> "unauthorized", agent |-> None, item |-> ""]

\* A handler that never looks at the header.
PostUnverified(r) == GithubWebhook(r)

\* The request handler from the secret verification on: 401 when a secret
\* is configured and the header differs, the route's handling otherwise.
Post(r) ==
  IF TruthyStr(WebhookSecret) /\ r.secret # WebhookSecret
    THEN /\ req' = r
         /\ resp' = Unauthorized
         /\ edges' = {} /\ nav' = nav
         /\ UNCHANGED <<file, queue, stores, procs, trace, completing, retrying,
                        pendDone, pendFin, retries, providers, moves, cardCalls,
                        ndisp, last, nops>>
    ELSE GithubWebhook(r)

NextSecret ==
  \/ \E r \in SecretRequests : Post(r)
  \/ \E k \in 1..MaxMoves, ok \in BOOLEAN : MoveSettle(k, ok)

SpecSecret == InitWebhook /\ [][NextSecret]_vars

\* C25: with a secret configured, a POST to a webhook route whose
\* x-webhook-secret header is missing or differs from the secret is
\* answered 401 and has no other effect: the registry, the stores, the
\* processes, the logs, the queue and the tracker calls are as before. No
\* other request is answered 401.
C25_SecretGate ==
  [][/\ \A r \in SecretRequests :
          (req' = r /\ r.secret # WebhookSecret /\ Post(r)) =>
            /\ resp' = Unauthorized
            /\ UNCHANGED <<file, queue, stores, procs, trace, moves, cardCalls, ndisp>>
     /\ (req' # req /\ req'.secret = WebhookSecret) =>
          resp.kind = "unauthorized" \/ resp'.kind # "unauthorized"
    ]_vars

\* A merged pull request arrived without the header while ember was idle:
\* 401, no card moved, nothing dispatched or queued.
C25_Witness ==
  /\ resp = Unauthorized
  /\ req \in SecretRequests /\ req.secret = None /\ req.action = "closed"
  /\ Registry["ember"].status = "idle"
  /\ cardCalls = NoCard /\ moves = <<>> /\ queue = None /\ ndisp = 0

\* ------------------------------------------- dispatch of a delivery
\* The first agent, in pool order, that a store constructed now finds idle.
IdlePositions == {i \in 1..Len(AGENT_NAMES) : Fresh[AGENT_NAMES[i]].status = "idle"}
FirstIdle == AGENT_NAMES[CHOOSE i \in IdlePositions : \A j \in IdlePositions : i <= j]

\* C26: a delivery that finds an agent idle is dispatched to the first
\* idle agent in pool order, the queue is left alone, a moveCard of the
\* item to in_progress is started whose reply is dispatched:true with that
\* agent's name, and the reply goes out unchanged when the move ends,
\* whether a provider succeeded or all failed.
C26_DispatchToFirstIdle ==
  [][/\ \A item \in Items :
          (IdlePositions # {} /\ WebhookDispatch(item)) =>
            /\ load(file')[FirstIdle].workItemId = Some(item.id)
            /\ load(file')[FirstIdle].status \in {"working", "error"}
            /\ <<FirstIdle, "idle", "provisioning">> \in edges'
            /\ \A n \in Names \ {FirstIdle} : load(file')[n] = Fresh[n]
            /\ queue' = queue
            /\ ndisp' = ndisp + 1
            /\ moves' = Append(moves,
                 [id |-> item.id, status |-> "in_progress", idx |-> 1,
                  reply |-> [kind |-> "dispatched", agent |-> Some(FirstIdle),
                             item |-> item.id],
                  calls |-> <<>>])
     /\ \A k \in 1..Len(moves), ok \in BOOLEAN :
          (/\ moves[k].reply.kind = "dispatched"
           /\ Len(moves') < Len(moves)
           /\ MoveSettle(k, ok)) =>
            /\ resp' = moves[k].reply
            /\ queue' = queue
            /\ file' = file
    ]_vars

\* ember was busy: the delivery of T-7 went to flow, both trackers refused
\* the move, and the reply is dispatched:true, agent flow.
C26_Witness ==
  /\ resp = [kind |-> "dispatched", agent |-> Some("flow"), item |-> "T-7"]
  /\ Registry["ember"].status = "working"
  /\ Registry["flow"].workItemId = Some("T-7")
  /\ cardCalls = [id |-> "T-7", status |-> "in_progress",
                  calls |-> << [provider |-> "Linear", ok |-> FALSE],
                               [provider |-> "Trello", ok |-> FALSE] >>]
  /\ queue = None

\* ------------------------------------------------------ load defaults
\* The record the file holds for the agent, on top of the agent's default.
Persisted(n) ==
  [f \in Fields |->
     IF f \in DOMAIN file[1].agents[n]
       THEN (IF f \in PlainFields THEN file[1].agents[n][f]
             ELSE Some(file[1].agents[n][f]))
       ELSE defaultAgent(n)[f]]

InFile(n) == file # None /\ n \in DOMAIN file[1].agents

FourInOrder(data) ==
  /\ Len(getAll(data)) = Len(AGENT_NAMES)
  /\ \A i \in 1..Len(AGENT_NAMES) : getAll(data)[i] = data[AGENT_NAMES[i]]
  /\ \A i \in 1..Len(AGENT_NAMES) : getAll(data)[i].name = AGENT_NAMES[i]

\* C27 (as amended): a store constructed from a missing or unparsable
\* file has the four agents idle without assignment; constructed from a
\* file lacking some names it has the default idle record for each missing
\* name and, for each present name, the persisted record on top of the
\* default, turned into error ("Process died unexpectedly", no pid) when
\* it is working or provisioning on a pid that is not live; getAll returns
\* the four agents in the fixed order.
C27_LoadDefaults ==
  [][/\ Called("construct") =>
          \A n \in Names :
            stores'[UiStore][n] =
              IF ~InFile(n) THEN defaultAgent(n)
              ELSE IF IsStale(Persisted(n), procs) THEN StaleFix(Persisted(n))
              ELSE Persisted(n)
     /\ FourInOrder(stores'[UiStore])
    ]_vars

\* C27 as stated: every present name has its persisted record.
C27_PersistedAsIs ==
  [][/\ Called("construct") =>
          \A n \in Names :
            stores'[UiStore][n] =
              IF ~InFile(n) THEN defaultAgent(n) ELSE Persisted(n)
     /\ FourInOrder(stores'[UiStore])
    ]_vars

\* A store was constructed from a file that holds flow only: flow has its
\* record, the others the default.
C27_Witness ==
  /\ last.op = "construct"
  /\ file # None /\ DOMAIN file[1].agents = {"flow"}
  /\ stores[UiStore]["flow"].workItemId = Some("LIN-42")
  /\ \A n \in Names \ {"flow"} : stores[UiStore][n] = defaultAgent(n)


\* ------------------------------------------- transitions and their events
\* The activity event that goes with a status.
EventFor(status) == IF status = "provisioning" THEN "dispatched" ELSE status

\* The step delivers the close or the error event of a child of agent a.
DeliversTo(a) == \E p \in Pids : (Closes(p) \/ Errors(p)) /\ procs[p].agent = a

\* The status changes of agent a the dispatch and the retry path wrote in
\* the step: the ones into provisioning, working, done and error, but for
\* the stale-process fix a reload of the store made.
PathEdges(a) ==
  {ed \in edges' :
     /\ ed[1] = a
     /\ ed[3] \in {"provisioning", "working", "done", "error"}
     /\ ~(/\ ed[3] = "error"
          /\ IsStale(load(file)[a], procs)
          /\ ~DeliversTo(a))}

\* What the step appended for a: a step that retried a (error to working)
\* started the log again at its retry event, so all of the log is new.
StepEntries(a) ==
  IF /\ <<a, "error", "working">> \in edges'
     /\ trace'[a] # <<>> /\ trace'[a][1].e = "retry"
    THEN trace'[a]
    ELSE NewEntries(a)

\* The positions in what the step appended for a that hold the event of
\* the status, for the work item of the record or of the child.
EventAt(a, status) ==
  {i \in 1..Len(StepEntries(a)) :
     /\ StepEntries(a)[i].k = "event"
     /\ StepEntries(a)[i].e = EventFor(status)
     /\ StepEntries(a)[i].x # None
     /\ \/ StepEntries(a)[i].x = load(file')[a].workItemId
        \/ \E p \in Pids : /\ Closes(p) \/ Errors(p)
                           /\ procs[p].agent = a
                           /\ StepEntries(a)[i].x = Some(procs[p].item)}

\* C28: every status change the dispatch and the retry path write for an
\* agent comes with the activity event of that agent and work item in the
\* same step (provisioning with dispatched, working with working, done with
\* done, error with error), and when a step writes two changes in a row
\* their events are in the log in the same order.
C28_TransitionsPairedWithEvents ==
  [][\A a \in Names :
       /\ \A ed \in PathEdges(a) : EventAt(a, ed[3]) # {}
       /\ \A e1 \in PathEdges(a) : \A e2 \in PathEdges(a) :
            e1[3] = e2[2] =>
              \E i \in EventAt(a, e1[3]) : \E j \in EventAt(a, e2[3]) : i < j
    ]_vars

\* A retry has just taken ember from error to working and its log holds the
\* retry event followed by the working event of the same item.
C28_Witness ==
  /\ <<"ember", "error", "working">> \in edges
  /\ Len(trace["ember"]) = 2
  /\ trace["ember"][1].e = "retry"
  /\ trace["ember"][2].e = "working"
  /\ trace["ember"][2].x = load(file)["ember"].workItemId

\* --------------------------------------- one pass over several agents
\* Registries in which several agents need the supervisor at once: done,
\* in error, or in error with the retry budget used up.
PassKinds ==
  { <<"error", "error", "done", "failed">>,
    <<"failed", "done", "idle", "error">> }

InitPass ==
  /\ \E k \in PassKinds :
       Constructed(UiStore, save(PriorData(k, ItemOf("LIN-42"))),
                   [p \in Pids |-> NoProc])
  /\ providers = MainProviders
  /\ InitRest

\* The supervisor and the answers of the trackers; the children it starts
\* keep running.
NextPass ==
  \/ Tick
  \/ \E a \in Names, ok \in BOOLEAN : MarkDoneSettle(a, ok)
  \/ \E a \in Names, ok \in BOOLEAN : CommentSettle(a, ok)

SpecPass == InitPass /\ [][NextPass]_vars

\* What one pass owes agent a, which it found as Fresh reports it: a done
\* agent not in completingRef gets its markItemDone call or, without a
\* provider to call, its release; an error agent not in retryingRef gets a
\* retry (the retry event, and it is working again or its retry count went
\* up) or, the budget used up, the max-retries event.
Processed(a) ==
  /\ (Fresh[a].status = "done" /\ a \notin completing) =>
       \/ pendDone'[a] # None /\ a \in completing'
       \/ AutoReleases(a) = 1 /\ load(file')[a] = defaultAgent(a)
  /\ (Fresh[a].status = "error" /\ a \notin retrying) =>
       IF RetryCountOf(Fresh[a]) < MAX_RETRIES
         THEN /\ trace'[a] # <<>> /\ trace'[a][1].e = "retry"
              /\ \/ <<a, "error", "working">> \in edges'
                 \/ RetryCountOf(load(file')[a]) = RetryCountOf(Fresh[a]) + 1
         ELSE /\ HowMany(NewEntries(a), "event", {"max-retries"}) = 1
              /\ pendFin'[a] # None \/ MaxReleases(a) = 1

\* C29: a failure while one agent is handled does not halt the pass. Every
\* interval callback completes and handles every agent that is done or in
\* error and not in flight, also when the retry of another agent failed in
\* that pass and after tracker calls and max-retries handlings have failed.
C29_FailureContainment ==
  [][Tick => \A a \in Names : Processed(a)]_vars

\* One pass: the retry of ember failed (its record is still error, with one
\* retry counted and only the retry event logged) and flow, behind it in
\* the pool, was retried and works.
C29_Witness ==
  /\ <<"flow", "error", "working">> \in edges
  /\ load(file)["ember"].status = "error"
  /\ RetryCountOf(load(file)["ember"]) = 1
  /\ Len(trace["ember"]) = 1 /\ trace["ember"][1].e = "retry"
  /\ trace["flow"][1].e = "retry"

\* ------------------------------- deliveries handled at the same time
\* Deliveries the server dispatches in one exploration, and deliveries it
\* is handling at once (each awaiting its moveCard).
RaceDispatches == 2
RaceMoves == 2

\* A server process that starts on a registry with every agent idle.
Started ==
  [file |-> save(PriorData(<<"idle", "idle", "idle", "idle">>, ItemOf("LIN-42"))),
   stores |-> [s \in StoreIds |-> defaultData],
   procs |-> [p \in Pids |-> NoProc],
   trace |-> [n \in Names |-> <<>>],
   completing |-> {}, retrying |-> {},
   pendDone |-> [n \in Names |-> None], pendFin |-> [n \in Names |-> None],
   retries |-> [n \in Names |-> 0], edges |-> {}, micro |-> <<>>, ok |-> TRUE]

\* The server has answered one delivery: LIN-42 went to ember, whose child
\* runs, and the callbacks of the child hold the store of that request.
FirstDelivery ==
  Adopt(dispatchToAgent(reload(Started, ReqStore), ReqStore, "ember",
                        ItemOf("LIN-42"), "spawned"))

InitRace ==
  /\ file = FirstDelivery.file
  /\ stores = FirstDelivery.stores
  /\ procs = FirstDelivery.procs
  /\ trace = FirstDelivery.trace
  /\ retries = FirstDelivery.retries
  /\ completing = {} /\ retrying = {}
  /\ pendDone = [n \in Names |-> None]
  /\ pendFin = [n \in Names |-> None]
  /\ edges = {} /\ nav = useNavigation
  /\ providers = MainProviders
  /\ queue = None
  /\ moves = <<>>
  /\ cardCalls = NoCard
  /\ resp = NoResp
  /\ ndisp = 0
  /\ last = NoOp
  /\ nops = 0
  /\ req = NoReq

\* webhookDispatch on a server that handles several deliveries at once:
\* the store is constructed, the agent obtained and dispatchToAgent run
\* without an await in between; the delivery then awaits moveCard.
Deliver(item) ==
  LET w0 == reload(World, ReqStore)
      free == getNextFreeAgent(w0.stores[ReqStore])
      i == NextWith(providers, "moveCard", 1)
      reply == [kind |-> "dispatched", agent |-> free, item |-> item.id]
  IN /\ IF free = None
          THEN /\ Len(loadQueue(queue)) < MaxQueue
               /\ queue' = saveQueue(Append(loadQueue(queue), item))
               /\ resp' = [kind |-> "queued", agent |-> None, item |-> item.id]
               /\ SetWorld(Adopt(w0))
               /\ UNCHANGED <<moves, cardCalls, ndisp>>
          ELSE /\ ndisp < RaceDispatches
               /\ ndisp' = ndisp + 1
               /\ \E oc \in Outcomes :
                    SetWorld(Adopt(dispatchToAgent(w0, ReqStore, free[1], item, oc)))
               /\ IF i = 0
                    THEN /\ resp' = reply
                         /\ cardCalls' = [id |-> item.id, status |-> "in_progress",
                                          calls |-> <<>>]
                         /\ UNCHANGED moves
                    ELSE /\ Len(moves) < RaceMoves
                         /\ moves' = Append(moves,
                              [id |-> item.id, status |-> "in_progress", idx |-> i,
                               reply |-> reply, calls |-> <<>>])
                         /\ UNCHANGED <<resp, cardCalls>>
               /\ UNCHANGED queue
     /\ UNCHANGED <<providers, last, nops, req>>

NextRace ==
  \/ \E item \in Items : Deliver(item)
  \/ \E k \in 1..RaceMoves, ok \in BOOLEAN : MoveSettle(k, ok)
  \/ \E p \in Pids, code \in ExitCodes : Exit(p, code)
  \/ \E p \in Pids : Close(p)
  \/ \E p \in Pids : SpawnError(p)

SpecRace == InitRace /\ [][NextRace]_vars

\* C30: two deliveries the server is handling at the same time can obtain
\* the same agent. Whenever a delivery arrives while an earlier one, which
\* was dispatched to the agent a store constructed now reports as first
\* idle, still awaits its moveCard, the new delivery obtains that agent
\* too, is dispatched to it, and its item takes the place of the earlier
\* assignment in the registry file.
C30_SecondClaimOverwrites ==
  [][\A k \in 1..Len(moves) :
       LET x == getNextFreeAgent(Fresh)
       IN (/\ x # None
           /\ moves[k].reply.kind = "dispatched"
           /\ moves[k].reply.agent = x
           /\ ndisp' = ndisp + 1) =>
            \A item \in Items :
              Deliver(item) =>
                /\ load(file)[x[1]].status = "idle"
                /\ Len(moves') = Len(moves) + 1
                /\ moves'[Len(moves')].reply.kind = "dispatched"
                /\ moves'[Len(moves')].reply.agent = x
                /\ load(file')[x[1]].workItemId = Some(item.id)
                /\ load(file')[x[1]].status \in {"working", "error"}
    ]_vars

\* Two deliveries are in flight, T-7 and then LIN-42, both dispatched to
\* flow: the registry holds LIN-42 for flow while the children of both
\* assignments run.
C30_Witness ==
  /\ Len(moves) = 2
  /\ moves[1].reply.agent = Some("flow") /\ moves[1].id = "T-7"
  /\ moves[2].reply.agent = Some("flow") /\ moves[2].id = "LIN-42"
  /\ load(file)["flow"].workItemId = Some("LIN-42")
  /\ \A p \in Pids : procs[p].st = "running" /\ procs[p].agent = "flow"
  /\ {procs[p].item : p \in Pids} = {"T-7", "LIN-42"}

\* ------------------------------------------------------ failed retries
\* The step retried agent a and the attempt failed before the launch: the
\* pass found it in error, counted the retry, and it is still in error.
RetryFailed(a) ==
  /\ Fresh[a].status = "error"
  /\ load(file')[a].status = "error"
  /\ RetryCountOf(load(file')[a]) = RetryCountOf(Fresh[a]) + 1

\* C31: a retry that fails before the launch is recorded by the retry path:
\* the agent is in error with the message of the failed attempt and the
\* log of the agent ends with the error event of that attempt.
C31_FailedRetryRecorded ==
  [][\A a \in Names :
       RetryFailed(a) =>
         /\ load(file')[a].error = Some(ProvisionMessage)
         /\ Last(trace'[a]).e = "error"
         /\ Last(trace'[a]).m = ProvisionMessage]_vars

\* ------------------------------------------------- the retried assignment
\* The step retried agent a and launched its subprocess.
Retried(a) == <<a, "error", "working">> \in edges'

\* C32: a retry re-runs the same assignment. After a step that retried an
\* agent, its workItemId, workItemTitle, workItemSource and branch are what
\* they were before, and the subprocess the step launched is the agent's,
\* for that item.
C32_RetrySameAssignment ==
  [][\A a \in Names :
       Retried(a) =>
         /\ load(file')[a].workItemId = Fresh[a].workItemId
         /\ load(file')[a].workItemTitle = Fresh[a].workItemTitle
         /\ load(file')[a].workItemSource = Fresh[a].workItemSource
         /\ load(file')[a].branch = Fresh[a].branch
         /\ Fresh[a].workItemId # None /\ Fresh[a].branch # None
         /\ \E p \in Pids :
              /\ procs[p].st = "none" /\ procs'[p].st # "none"
              /\ procs'[p].agent = a
              /\ Some(procs'[p].item) = Fresh[a].workItemId]_vars

\* ember, in error on LIN-42, was retried: it works on LIN-42 on the branch
\* of the first attempt and its subprocess runs.
C32_Witness ==
  /\ <<"ember", "error", "working">> \in edges
  /\ load(file)["ember"].workItemId = Some("LIN-42")
  /\ load(file)["ember"].branch = Some(branchName("ember", ItemOf("LIN-42")))
  /\ load(file)["ember"].pid # None
  /\ \E p \in Pids : procs[p].st = "running" /\ procs[p].agent = "ember"
                     /\ procs[p].item = "LIN-42"

\* ---------------------------------------------------- request bodies
\* What readBody returns on the github route: JSON text of a pull request or
\* issue event, or text that is no JSON.
RawBodies ==
  {[json |-> FALSE, value |-> NoReq]}
    \cup {[json |-> TRUE, value |-> b] :
            b \in [action : {"closed", "labeled"}, merged : BOOLEAN,
                   ref : {Some(Lin42Branch)}, issue : {None, Some(GithubItem)}]}

\* JSON.parse(raw): the value, or nothing when it throws.
JSONparse(raw) == IF raw.json THEN Some(raw.value) ELSE None

ServerError == [kind |-> "error500", agent |-> None, item |-> ""]

\* A handler that takes a body it cannot parse for an empty event.
ReceiveLenient(raw) ==
  GithubWebhook(IF JSONparse(raw) = None THEN NoReq ELSE JSONparse(raw)[1])

\* The try block of the request handler: readBody, JSON.parse, then the
\* route's handling; the catch answers 500.
Receive(raw) ==
  IF JSONparse(raw) = None
    THEN /\ resp' = ServerError
         /\ edges' = {} /\ nav' = nav
         /\ UNCHANGED <<file, queue, stores, procs, trace, completing, retrying,
                        pendDone, pendFin, retries, providers, moves, cardCalls,
                        ndisp, last, nops, req>>
    ELSE GithubWebhook(JSONparse(raw)[1])

NextParse ==
  \/ \E raw \in RawBodies : Receive(raw)
  \/ \E k \in 1..MaxMoves, ok \in BOOLEAN : MoveSettle(k, ok)

SpecParse == InitGithub /\ [][NextParse]_vars

\* The step changes neither the registry nor the queue nor anything else
\* of the server but its reply.
NothingBut(reply) ==
  /\ resp' = reply
  /\ UNCHANGED <<file, queue, stores, procs, trace, moves, cardCalls, ndisp>>

\* C33: a POST to a tracker route whose body cannot be parsed is answered
\* 500 and changes neither the registry nor the queue; a body the parser
\* finds not actionable is answered 200 ignored and changes nothing either.
C33_UnparsableAndIgnored ==
  [][\A raw \in RawBodies :
       Receive(raw) =>
         /\ JSONparse(raw) = None => NothingBut(ServerError)
         /\ (/\ JSONparse(raw) # None
             /\ parseGitHubPrMerge(raw.value) = None
             /\ parseGitHubWebhook(raw.value) = None) => NothingBut(Ignored)
    ]_vars

\* After a delivery was queued, a body that is no JSON was answered 500:
\* the queue still holds the one item.
C33_Witness ==
  /\ resp = ServerError
  /\ queue # None /\ Len(loadQueue(queue)) = 1

\* ------------------------------------------------ dashboard navigation
NavFrame ==
  /\ edges' = {}
  /\ UNCHANGED <<file, queue, stores, procs, trace, completing, retrying,
                 pendDone, pendFin, retries, providers, moves, cardCalls,
                 resp, ndisp, last, nops, req>>

\* A key press reaches the subscribed handler. Escape on the root
\* dashboard exits the application.
KeyPress(key) ==
  /\ ~(key = "escape" /\ mode(nav) # "agents" /\ ~canGoBack(nav))
  /\ Len(useInput(nav, key).modeStack) <= MaxStack
  /\ Len(useInput(nav, key).forwardStack) <= MaxStack
  /\ nav' = useInput(nav, key)
  /\ NavFrame

Render ==
  /\ nav' = Rendered(nav)
  /\ NavFrame

NextNav ==
  \/ \E key \in NavKeys : KeyPress(key)
  \/ Render

SpecNav == Init /\ [][NextNav]_vars

\* The key pressed k times; the hook renders after each press, or not.
RECURSIVE Presses(_, _, _, _)
Presses(n, key, k, renders) ==
  IF k = 0 THEN n
  ELSE Presses(IF renders THEN Rendered(useInput(n, key)) ELSE useInput(n, key),
               key, k - 1, renders)

SameStacks(n, m) ==
  n.modeStack = m.modeStack /\ n.forwardStack = m.forwardStack

\* The key calls navigateTo with a mode that is not the current one.
NavigatesTo(n, key) ==
  \/ key = "t" /\ mode(n) \notin {"time-expanded"}
  \/ key = "a" /\ mode(n) \notin {"agents"}

\* C34: a key that navigates to a new destination leaves the forward
\* history empty and a right arrow pressed next, before or after the hook
\* rendered, changes neither stack; a left arrow on a mode stack of length 1
\* changes neither stack.
C34_NewDestinationClearsForward ==
  /\ \A key \in NavKeys :
       NavigatesTo(nav, key) =>
         /\ useInput(nav, key).forwardStack = <<>>
         /\ \A renders \in BOOLEAN :
              LET n1 == Presses(nav, key, 1, renders)
              IN SameStacks(useInput(n1, "rightArrow"), n1)
  /\ Len(nav.modeStack) = 1 => SameStacks(useInput(nav, "leftArrow"), nav)

\* The same of a hook that rendered after every key.
C34_AfterRender ==
  LET n0 == Rendered(nav)
  IN /\ \A key \in NavKeys :
          NavigatesTo(n0, key) =>
            /\ useInput(n0, key).forwardStack = <<>>
            /\ SameStacks(useInput(Presses(n0, key, 1, TRUE), "rightArrow"),
                          Presses(n0, key, 1, TRUE))
     /\ Len(n0.modeStack) = 1 => SameStacks(useInput(n0, "leftArrow"), n0)

\* k left arrows, a render, then k right arrows with a render after each.
RoundTrip(n, k, renders) ==
  Presses(Rendered(Presses(n, "leftArrow", k, renders)), "rightArrow", k, TRUE)

\* C35: from a rendered hook whose mode stack is longer than k, k back
\* steps and then k forward steps restore the mode stack and the forward
\* history, whether or not the hook renders between the back steps.
C35_RoundTrip ==
  \A k \in 1..(Len(nav.modeStack) - 1), renders \in BOOLEAN :
    SameStacks(RoundTrip(Rendered(nav), k, renders), Rendered(nav))

\* The same with a render after every back step.
C35_RenderedRoundTrip ==
  \A k \in 1..(Len(nav.modeStack) - 1) :
    SameStacks(RoundTrip(Rendered(nav), k, TRUE), Rendered(nav))

\* ------------------------------------------------ several store instances
\* C36: the registry file never shows an agent as idle while a subprocess
\* launched for it is still running.
C36_NeverIdleWhileRunning ==
  \A p \in Pids :
    procs[p].st = "running" => load(file)[procs[p].agent].status # "idle"

\* --------------------------------------------- a crash during provisioning
\* Registries the orchestrating process left when it died between the
\* provisioning update of dispatchToAgent and the launch: one agent is
\* provisioning without a pid, the others done or in error.
CrashKinds ==
  { <<"provisioning", "done", "failed", "idle">>,
    <<"done", "provisioning", "failed", "done">> }

\* The dashboard restarted over such a registry: no process of the earlier
\* run is left.
InitCrash ==
  /\ \E k \in CrashKinds :
       Constructed(UiStore, save(PriorData(k, ItemOf("LIN-42"))),
                   [p \in Pids |-> NoProc])
  /\ providers = MainProviders
  /\ InitRest

NextCrash ==
  \/ Tick
  \/ \E a \in Names, ok \in BOOLEAN : MarkDoneSettle(a, ok)
  \/ \E a \in Names, ok \in BOOLEAN : CommentSettle(a, ok)

\* The interval of the poll loop keeps firing.
SpecCrash == InitCrash /\ [][NextCrash]_vars /\ WF_vars(Tick)

\* C37: an agent the restarted dashboard finds provisioning is eventually
\* in error (from where the supervisor retries or releases it).
C37_ProvisioningRecovers ==
  \A a \in Names :
    (load(file)[a].status = "provisioning") ~> (load(file)[a].status = "error")

\* ------------------------------------------------ the reply "dispatched"
\* The step is the return of a webhookDispatch that reports a dispatch: its
\* moveCard invocation ended and the server replies.
ReturnsDispatched ==
  /\ Len(moves') < Len(moves)
  /\ resp'.kind = "dispatched"

\* C38: when webhookDispatch returns dispatched naming an agent and an item,
\* the record of the agent holds the item and is working, done or in error,
\* and the error is not that of a provisioning failure.
C38_DispatchedMeansLaunched ==
  [][ReturnsDispatched =>
       LET r == load(file')[resp'.agent[1]]
       IN /\ r.workItemId = Some(resp'.item)
          /\ r.status \in {"working", "done", "error"}
          /\ r.error # Some(ProvisionMessage)]_vars

\* ------------------------------------------------------- late callbacks
\* The registry still holds the assignment that launched child p: the
\* agent is working on the child's item and the pid, if one was recorded,
\* is the child's.
Current(p) ==
  LET r == load(file)[procs[p].agent]
  IN /\ r.status = "working"
     /\ r.workItemId = Some(procs[p].item)
     /\ r.pid \in {None, Some(p)}

\* C39: the close or error callback of a child whose assignment the
\* registry no longer holds (the agent was marked error by the stale-process
\* detection, retried, released or given a new item meanwhile) leaves the
\* status of the agent as it is.
C39_CallbackOnlyOwnAssignment ==
  [][\A p \in Pids :
       ((Close(p) \/ SpawnError(p)) /\ ~Current(p)) =>
          load(file')[procs[p].agent].status = load(file)[procs[p].agent].status
    ]_vars

\* ------------------------------------------------ one agent per work item
\* C40: no two agents that are not idle hold the same workItemId.
C40_OneAgentPerItem ==
  \A a, b \in Names :
    (/\ a # b
     /\ load(file)[a].status # "idle"
     /\ load(file)[b].status # "idle"
     /\ load(file)[a].workItemId # None) =>
       load(file)[a].workItemId # load(file)[b].workItemId
====
